---- MODULE Spec2Model ----
(***************************************************************************)
(* State-machine model of dc.js BaseMixin (src/src/base/base-mixin.js):    *)
(* the filter toggle engine with its default handlers, the render/redraw    *)
(* lifecycle, and the chart-group fan-out with its commit gate.             *)
(***************************************************************************)
EXTENDS Integers, Sequences, FiniteSets, TLC

(***************************************************************************)
(* Bounds of the model.                                                     *)
(***************************************************************************)
MaxNum == 2
MaxFilters == 4
MaxNested == 3
NumCharts == 3
MaxPending == 2
\* calculator invocations counted between two invalidations of a cached size
MaxCalls == 2
\* the longest array of data handed to _computeOrderedGroups
MaxData == 3

(***************************************************************************)
(* JavaScript values that are passed as filters.  Every value is a record   *)
(* of one shape so that values of different kinds can be compared:          *)
(*   num     a number a                                                     *)
(*   nan     the number NaN                                                 *)
(*   str     the string of the decimal digit a                              *)
(*   ranged  dc.filters.RangedFilter(a, b): the array [a, b] carrying       *)
(*           isFiltered and filterType 'RangedFilter'                       *)
(*   twoD    dc.filters.TwoDimensionalFilter([a, b]): the array [a, b]      *)
(*           carrying isFiltered and filterType 'TwoDimensionalFilter'      *)
(*   null    the value null                                                 *)
(*   none    "no value": undefined / absent argument                        *)
(***************************************************************************)
Val(k, x, y) == [kind |-> k, a |-> x, b |-> y]
Num(n) == Val("num", n, 0)
NaN == Val("nan", 0, 0)
Str(n) == Val("str", n, 0)
Ranged(x, y) == Val("ranged", x, y)
TwoD(x, y) == Val("twoD", x, y)
Null == Val("null", 0, 0)
None == Val("none", 0, 0)

Nums == {Num(n) : n \in 1..MaxNum}
\* the values offered to filter(v) as a single filter
Values == Nums \cup {Str(1), NaN, Ranged(1, 2), TwoD(1, 2)}

(***************************************************************************)
(* ToPrimitive / ToNumber and the abstract relational comparison, as the    *)
(* language defines them for the operators <= and >= of the handlers.       *)
(* A primitive is a number (possibly NaN) or a string of character codes.   *)
(***************************************************************************)
Digit(d) == 48 + d

PNum(n) == [isStr |-> FALSE, isNaN |-> FALSE, n |-> n, s |-> <<>>]
PNaN == [isStr |-> FALSE, isNaN |-> TRUE, n |-> 0, s |-> <<>>]
PStr(cs) == [isStr |-> TRUE, isNaN |-> FALSE, n |-> 0, s |-> cs]

\* arrays convert through Array.prototype.join(',')
ToPrimitive(v) ==
    CASE v.kind = "num" -> PNum(v.a)
      [] v.kind = "nan" -> PNaN
      [] v.kind = "none" -> PNaN
      [] v.kind = "null" -> PNum(0)
      [] v.kind = "str" -> PStr(<<Digit(v.a)>>)
      [] OTHER -> PStr(<<Digit(v.a), 44, Digit(v.b)>>)

IsDigits(cs) == \A i \in 1..Len(cs) : cs[i] >= 48 /\ cs[i] <= 57

RECURSIVE DigitsValue(_)
DigitsValue(cs) ==
    IF cs = <<>> THEN 0
    ELSE 10 * DigitsValue(SubSeq(cs, 1, Len(cs) - 1)) + (cs[Len(cs)] - 48)

ToNumber(p) ==
    IF ~p.isStr THEN p
    ELSE IF IsDigits(p.s) THEN PNum(DigitsValue(p.s)) ELSE PNaN

RECURSIVE StrLess(_, _)
StrLess(s, t) ==
    IF t = <<>> THEN FALSE
    ELSE IF s = <<>> THEN TRUE
    ELSE IF s[1] # t[1] THEN s[1] < t[1]
    ELSE StrLess(Tail(s), Tail(t))

\* x < y: "true", "false" or "undefined" (a NaN operand)
AbstractLess(x, y) ==
    LET px == ToPrimitive(x)
        py == ToPrimitive(y)
    IN IF px.isStr /\ py.isStr
       THEN IF StrLess(px.s, py.s) THEN "true" ELSE "false"
       ELSE LET nx == ToNumber(px)
                ny == ToNumber(py)
            IN IF nx.isNaN \/ ny.isNaN THEN "undefined"
               ELSE IF nx.n < ny.n THEN "true" ELSE "false"

\* x < y tabulated once over the values of the model
Comparable == Values \cup {Null, None}
Less == [x \in Comparable |-> [y \in Comparable |-> AbstractLess(x, y)]]

\* x <= y  is  !(y < x) with undefined giving false;  x >= y  is  !(x < y)
LessEq(x, y) == Less[y][x] = "false"
GreaterEq(x, y) == Less[x][y] = "false"

\* v.isFiltered is truthy
IsTagged(v) == v.kind \in {"ranged", "twoD"}
\* v instanceof Array
IsArray(v) == v.kind \in {"ranged", "twoD", "nested"}

\* the argument [[v1, ..., vn]]: an untagged array whose first element is an
\* array; the inner array travels next to it
Nested == Val("nested", 0, 0)
\* the raw values offered inside [[...]]
NestedValues == Nums \cup {NaN}

RECURSIVE SeqsUpTo(_, _)
SeqsUpTo(S, n) ==
    IF n = 0 THEN {<<>>}
    ELSE LET shorter == SeqsUpTo(S, n - 1)
         IN shorter \cup {Append(q, x) : q \in {r \in shorter : Len(r) = n - 1}, x \in S}

\* the inner arrays offered inside [[...]]
NestedArgs == SeqsUpTo(NestedValues, MaxNested)

(***************************************************************************)
(* The default handlers (base-mixin.js lines 11-58).                        *)
(***************************************************************************)
\* a call made on the data source (the crossfilter dimension)
DsCall(name, v, fs) == [op |-> name, v |-> v, fs |-> fs]
NoDsCall == DsCall("none", None, <<>>)

\* mutant: an empty list makes no call on the dimension
_defaultFilterHandler_NoClear(fs) ==
    [calls |-> IF Len(fs) = 0 THEN <<>>
               ELSE IF Len(fs) = 1 /\ ~IsTagged(fs[1])
                    THEN <<DsCall("filterExact", fs[1], <<>>)>>
               ELSE IF Len(fs) = 1 /\ fs[1].kind = "ranged"
                    THEN <<DsCall("filterRange", fs[1], <<>>)>>
               ELSE <<DsCall("filterFunction", None, fs)>>,
     ret |-> fs]

\* mutant: every single tagged element is handed over as a range
_defaultFilterHandler_TaggedIsRange(fs) ==
    [calls |-> IF Len(fs) = 0 THEN <<DsCall("filter", Null, <<>>)>>
               ELSE IF Len(fs) = 1 /\ ~IsTagged(fs[1])
                    THEN <<DsCall("filterExact", fs[1], <<>>)>>
               ELSE IF Len(fs) = 1
                    THEN <<DsCall("filterRange", fs[1], <<>>)>>
               ELSE <<DsCall("filterFunction", None, fs)>>,
     ret |-> fs]

\* _defaultFilterHandler(dimension, filters): the calls it makes on the
\* dimension, in order, and the list it returns
_defaultFilterHandler(fs) ==
    [calls |-> IF Len(fs) = 0 THEN <<DsCall("filter", Null, <<>>)>>
               ELSE IF Len(fs) = 1 /\ ~IsTagged(fs[1])
                    THEN <<DsCall("filterExact", fs[1], <<>>)>>
               ELSE IF Len(fs) = 1 /\ fs[1].kind = "ranged"
                    THEN <<DsCall("filterRange", fs[1], <<>>)>>
               ELSE <<DsCall("filterFunction", None, fs)>>,
     ret |-> fs]

\* mutant: the test of some() lost its >= half
_defaultHasFilterHandler_OnlyLessEq(fs, f) ==
    IF f.kind \in {"null", "none"} THEN Len(fs) > 0
    ELSE \E i \in 1..Len(fs) : LessEq(f, fs[i])

_defaultHasFilterHandler(fs, f) ==
    IF f.kind \in {"null", "none"} THEN Len(fs) > 0
    ELSE \E i \in 1..Len(fs) : LessEq(f, fs[i]) /\ GreaterEq(f, fs[i])

RemoveAt(fs, i) == SubSeq(fs, 1, i - 1) \o SubSeq(fs, i + 1, Len(fs))

\* mutant: the test of the loop lost its >= half
_defaultRemoveFilterHandler_OnlyLessEq(fs, f) ==
    LET hits == {i \in 1..Len(fs) : LessEq(fs[i], f)}
    IN IF hits = {} THEN fs
       ELSE RemoveAt(fs, CHOOSE i \in hits : \A j \in hits : i <= j)

_defaultRemoveFilterHandler(fs, f) ==
    LET hits == {i \in 1..Len(fs) : LessEq(fs[i], f) /\ GreaterEq(fs[i], f)}
    IN IF hits = {} THEN fs
       ELSE RemoveAt(fs, CHOOSE i \in hits : \A j \in hits : i <= j)

\* mutant: unshift instead of push
_defaultAddFilterHandler_Unshift(fs, f) == <<f>> \o fs

_defaultAddFilterHandler(fs, f) == Append(fs, f)

\* mutant: the list is handed back as it is
_defaultResetFilterHandler_Keep(fs) == fs

_defaultResetFilterHandler(fs) == <<>>

(***************************************************************************)
(* The predicate handed to dimension.filterFunction, lines 20-31, and the   *)
(* isFiltered capability of the tagged filters (dc.filters).                *)
(***************************************************************************)
\* a datum the data source tests: a key, here a number or the array [a, b]
Pair(x, y) == Val("array", x, y)
PredicateData == Nums \cup {Pair(1, 2), Pair(2, 1)}

\* a <= b and a >= b on values outside the table Less
RawLessEq(x, y) == AbstractLess(y, x) = "false"
RawGreaterEq(x, y) == AbstractLess(x, y) = "false"

\* e.isFiltered(d) of a tagged filter e:
\*   RangedFilter          e[0] <= d && d < e[1]
\*   TwoDimensionalFilter  d is an array of two elements equal to those of e
isFiltered(e, d) ==
    CASE e.kind = "ranged" ->
            RawLessEq(Num(e.a), d) /\ AbstractLess(d, Num(e.b)) = "true"
      [] e.kind = "twoD" -> d.kind = "array" /\ d.a = e.a /\ d.b = e.b
      [] OTHER -> FALSE

\* the function of line 20 applied to the datum d, the list fs being the one
\* the handler was called with
filterFunctionPredicate(fs, d) ==
    \E i \in 1..Len(fs) :
        \/ IsTagged(fs[i]) /\ isFiltered(fs[i], d)
        \/ RawLessEq(fs[i], d) /\ RawGreaterEq(fs[i], d)

(***************************************************************************)
(* State.  Every chart field is a function of the chart.                    *)
(***************************************************************************)
Charts == 1..NumCharts
\* the chart the single-chart specifications drive
Subject == CHOOSE c \in Charts : \A d \in Charts : c <= d

VARIABLES
    \* filter engine
    filters,            \* _filters: the chart's filter list
    dimension,          \* _dimension: "undefined", "crossfilter" (has filter
                        \* capability), "noFilter" (an object without one) or
                        \* "throwing" (its filter methods throw)
    dsLast,             \* data-source double: the last call made on the dimension
    controls,           \* the .reset/.filter control elements: "untouched", "on", "off"
    hasFilterHandler,   \* _hasFilterHandler: "default", or "never" for the no-op
                        \* handler (filters, filter) => false
    controlsUseVisibility,      \* _controlsUseVisibility
    controlStyle,       \* the display and visibility styles of the control elements
    \* lifecycle
    group,              \* _group is set
    mandatoryAttributesList,    \* _mandatoryAttributesList
    legend,             \* _legend is set
    transitionDuration, \* _transitionDuration
    svg,                \* _svg is set
    svgAttr,            \* the width, height and viewBox attributes of the svg
    width, height,      \* _width, _height: the cached size, Unset when undefined
    widthCalc, heightCalc,      \* _widthCalc, _heightCalc
    widthCalls, heightCalls,    \* calls of _widthCalc / _heightCalc made since
                        \* _width / _height was last cleared
    minWidth, minHeight,        \* _minWidth, _minHeight
    useViewBoxResizing, \* _useViewBoxResizing
    pendingTransitions, \* transitions started on a svg whose end is still to come
    listeners,          \* _listeners: the events whose registered listener throws
    \* anchoring and chart groups
    anchor,             \* _anchor
    root,               \* _root: "undefined" or the selection of the anchor
    isChild,            \* _isChild: "undefined", "true" or "false"
    chartGroup,         \* _chartGroup
    chartMap,           \* the chart registry: group -> member charts in order
    commitHandler,      \* _commitHandler is set
    pendingCommits,     \* completion callbacks handed to commit handlers and
                        \* not yet invoked
    pendingTriggers,    \* closures handed to events.trigger and not yet run
    \* history
    last,               \* the API call made last: operation, chart, argument,
                        \* and the chart's filter list before the call
    log                 \* what the last API call did, in order

filterVars == <<filters, dimension, dsLast, controls, hasFilterHandler,
                controlsUseVisibility, controlStyle>>
geometryVars == <<svgAttr, width, height, widthCalc, heightCalc, widthCalls,
                  heightCalls, minWidth, minHeight, useViewBoxResizing>>
lifeVars == <<group, mandatoryAttributesList, legend, transitionDuration, svg,
              pendingTransitions, listeners>>
anchorVars == <<anchor, root, isChild, chartGroup, chartMap>>
commitVars == <<commitHandler, pendingCommits, pendingTriggers>>
histVars == <<last, log>>
vars == <<filterVars, geometryVars, lifeVars, anchorVars, commitVars, histVars>>

\* _width / _height when undefined
Unset == -1
\* a cached size that is defined and is not a number (utils.isNumber fails)
NonNumber == -2
IsNumber(x) == x >= 0
\* constants.DEFAULT_CHART_GROUP and the groups charts are put in
DEFAULT_CHART_GROUP == "__default_chart_group__"
GroupIds == {DEFAULT_CHART_GROUP, "g1"}
\* the selectors charts are anchored to
Selectors == {"#a"}
\* the default calculators _defaultWidthCalc / _defaultHeightCalc
DefaultCalc == [kind |-> "default", n |-> 0]
\* what getBoundingClientRect() of the anchor reports; 0: nothing
BoxSizes == {0, 300}
NoAttr == [width |-> Unset, height |-> Unset, viewBox |-> <<>>]
\* control elements that carry no inline display or visibility style
NoStyle == [display |-> "null", visibility |-> "null"]

\* one entry of the log
Entry(ev, c, v, fs) == [ev |-> ev, c |-> c, v |-> v, fs |-> fs]
\* an API call; again: it repeats the call made just before it
Call(op, c, v, inner, pre) ==
    [op |-> op, c |-> c, v |-> v, inner |-> inner, pre |-> pre,
     again |-> last.op = op /\ last.c = c /\ last.v = v /\ last.inner = inner]

Events(name) == SelectSeq(log, LAMBDA e : e.ev = name)
Count(name) == Len(Events(name))

Init ==
    /\ filters = [c \in Charts |-> <<>>]
    /\ dimension = [c \in Charts |-> "undefined"]
    /\ dsLast = [c \in Charts |-> NoDsCall]
    /\ controls = [c \in Charts |-> "untouched"]
    /\ hasFilterHandler = [c \in Charts |-> "default"]
    /\ controlsUseVisibility = [c \in Charts |-> FALSE]
    /\ controlStyle = [c \in Charts |-> NoStyle]
    /\ group = [c \in Charts |-> FALSE]
    /\ mandatoryAttributesList = [c \in Charts |-> <<"dimension", "group">>]
    /\ legend = [c \in Charts |-> FALSE]
    /\ transitionDuration = [c \in Charts |-> 750]
    /\ svg = [c \in Charts |-> FALSE]
    /\ svgAttr = [c \in Charts |-> NoAttr]
    /\ width = [c \in Charts |-> Unset]
    /\ height = [c \in Charts |-> Unset]
    /\ widthCalc = [c \in Charts |-> DefaultCalc]
    /\ heightCalc = [c \in Charts |-> DefaultCalc]
    /\ widthCalls = [c \in Charts |-> 0]
    /\ heightCalls = [c \in Charts |-> 0]
    /\ minWidth = [c \in Charts |-> 200]
    /\ minHeight = [c \in Charts |-> 200]
    /\ useViewBoxResizing = [c \in Charts |-> FALSE]
    /\ pendingTransitions = <<>>
    /\ listeners = [c \in Charts |-> {}]
    /\ anchor = [c \in Charts |-> "undefined"]
    /\ root = [c \in Charts |-> "undefined"]
    /\ isChild = [c \in Charts |-> "undefined"]
    /\ chartGroup = [c \in Charts |-> DEFAULT_CHART_GROUP]
    /\ chartMap = [g \in GroupIds |-> <<>>]
    /\ commitHandler = [c \in Charts |-> FALSE]
    /\ pendingCommits = <<>>
    /\ pendingTriggers = <<>>
    /\ last = [op |-> "new", c |-> Subject, v |-> None, inner |-> <<>>,
               pre |-> <<>>, again |-> FALSE]
    /\ log = <<>>

(***************************************************************************)
(* filter(value), lines 1116-1149, with applyFilters, lines 1037-1045.      *)
(***************************************************************************)
\* this._hasFilterHandler(filters, filter)
_hasFilterHandler(c, fs, f) ==
    IF hasFilterHandler[c] = "default" THEN _defaultHasFilterHandler(fs, f) ELSE FALSE

\* mutant: the value is added without asking the has-handler
Toggle_AlwaysAdds(c, fs, f) == _defaultAddFilterHandler(fs, f)

\* one toggle: has -> remove, else -> add
Toggle(c, fs, f) ==
    IF _hasFilterHandler(c, fs, f)
    THEN _defaultRemoveFilterHandler(fs, f)
    ELSE _defaultAddFilterHandler(fs, f)

\* filter[0].forEach(f => toggle f)
RECURSIVE ToggleEach(_, _, _)
ToggleEach(c, fs, inner) ==
    IF inner = <<>> THEN fs
    ELSE ToggleEach(c, Toggle(c, fs, Head(inner)), Tail(inner))

\* the candidate list filter(value) computes from the list fs
Candidate(c, fs, v, inner) ==
    IF IsArray(v) /\ v.kind = "nested" /\ ~IsTagged(v) THEN ToggleEach(c, fs, inner)
    ELSE IF v.kind = "null" THEN _defaultResetFilterHandler(fs)
    ELSE Toggle(c, fs, v)

\* mutant: the handler is invoked for any dimension that is bound
applyFilters_AnyDimension(c, fs) ==
    IF dimension[c] # "undefined"
    THEN _defaultFilterHandler(fs)
    ELSE [calls |-> <<>>, ret |-> fs]

\* applyFilters(filters): the data-source calls made and the list returned
applyFilters(c, fs) ==
    IF dimension[c] = "crossfilter"
    THEN _defaultFilterHandler(fs)
    ELSE [calls |-> <<>>, ret |-> fs]

RECURSIVE DsEntries(_, _)
DsEntries(c, calls) ==
    IF calls = <<>> THEN <<>>
    ELSE <<Entry(Head(calls).op, c, Head(calls).v, Head(calls).fs)>>
         \o DsEntries(c, Tail(calls))

(***************************************************************************)
(* Listeners: on(event, listener), lines 1569-1572, and the dispatch of an  *)
(* event by this._listeners.call(event, ...), which no caller wraps in a     *)
(* try.                                                                      *)
(***************************************************************************)
\* the events of the dispatch, lines 114-122
ListenerEvents == {"preRender", "postRender", "preRedraw", "postRedraw", "filtered",
                   "renderlet", "pretransition"}

\* the first step of lg that calls a listener of chart c that throws; 0: none
FirstThrow(c, lg) ==
    IF listeners[c] = {} THEN 0
    ELSE LET hits == {i \in 1..Len(lg) : lg[i].c = c /\ lg[i].ev \in listeners[c]}
         IN IF hits = {} THEN 0 ELSE CHOOSE i \in hits : \A j \in hits : i <= j

\* the steps of lg that are run: those up to the first listener that throws,
\* whose exception leaves the call
Interrupt(c, lg) ==
    LET i == FirstThrow(c, lg)
    IN IF i = 0 THEN lg
       ELSE SubSeq(lg, 1, i) \o <<Entry("ListenerError", c, Val(lg[i].ev, 0, 0), <<>>)>>

\* mutant: the exception of a listener is caught and the call goes on
Dispatching_Caught(c, b) == b

\* a body of steps b run on chart c with its listeners: after a listener that
\* throws nothing is run and no transition is started
Dispatching(c, b) ==
    IF FirstThrow(c, b.log) = 0 THEN b
    ELSE [b EXCEPT !.threw = TRUE, !.log = Interrupt(c, b.log), !.sched = <<>>]

\* on(event, listener): the listener replaces the one registered for the event
On(c, events) ==
    \E e \in events, throws \in BOOLEAN :
        /\ listeners' = [listeners EXCEPT ![c] = IF throws THEN @ \cup {e} ELSE @ \ {e}]
        /\ log' = <<>>
        /\ last' = [op |-> "on", c |-> c, v |-> Val(e, 0, 0),
                    inner |-> <<Val(IF throws THEN "throws" ELSE "returns", 0, 0)>>,
                    pre |-> <<>>, again |-> FALSE]
        /\ UNCHANGED <<filterVars, geometryVars, group, mandatoryAttributesList, legend,
                       transitionDuration, svg, pendingTransitions, anchorVars,
                       commitVars>>

(***************************************************************************)
(* The control elements: controlsUseVisibility, lines 640-646,              *)
(* turnOnControls, lines 662-669, and turnOffControls, lines 679-687.       *)
(***************************************************************************)
\* turnOnControls(): the styles of the control elements it leaves
turnOnControls(c) ==
    IF root[c] = "undefined" THEN controlStyle[c]
    ELSE IF controlsUseVisibility[c]
         THEN [controlStyle[c] EXCEPT !.visibility = "null"]
         ELSE [controlStyle[c] EXCEPT !.display = "null"]

\* turnOffControls(): the styles of the control elements it leaves
turnOffControls(c) ==
    IF root[c] = "undefined" THEN controlStyle[c]
    ELSE IF controlsUseVisibility[c]
         THEN [controlStyle[c] EXCEPT !.visibility = "hidden"]
         ELSE [controlStyle[c] EXCEPT !.display = "none"]

\* controlsUseVisibility(b)
SetControlsUseVisibility(c) ==
    \E b \in BOOLEAN :
        /\ controlsUseVisibility' = [controlsUseVisibility EXCEPT ![c] = b]
        /\ log' = <<>>
        /\ last' = [op |-> "controlsUseVisibility", c |-> c,
                    v |-> Val(IF b THEN "true" ELSE "false", 0, 0),
                    inner |-> <<>>, pre |-> <<>>, again |-> FALSE]
        /\ UNCHANGED <<filters, dimension, dsLast, controls, hasFilterHandler,
                       controlStyle, geometryVars, lifeVars, anchorVars, commitVars>>

(***************************************************************************)
(* The body of filter(value), lines 1116-1149.                              *)
(***************************************************************************)
\* mutant: the filtered event is fired before the filters are applied
FilterBody_FiredBeforeApply(c, fs, v, inner) ==
    LET cand == Candidate(c, fs, v, inner)
        applied == applyFilters(c, cand)
        stored == applied.ret
        shown == root[c] # "null" /\ _hasFilterHandler(c, stored, None)
        thrown == v # None /\ "filtered" \in listeners[c]
        touched == root[c] # "undefined" /\ ~thrown
    IN [filters |-> stored,
        calls |-> applied.calls,
        threw |-> thrown,
        controls |-> IF ~touched THEN controls[c] ELSE IF shown THEN "on" ELSE "off",
        style |-> IF thrown THEN controlStyle[c]
                  ELSE IF shown THEN turnOnControls(c) ELSE turnOffControls(c),
        log |-> Interrupt(c,
                (IF v # None THEN <<Entry("filtered", c, v, inner)>> ELSE <<>>)
                \o <<Entry("applyFilters", c, None, cand)>>
                \o (IF dimension[c] = "crossfilter"
                    THEN <<Entry("filterHandler", c, None, cand)>>
                    ELSE <<>>)
                \o DsEntries(c, applied.calls)
                \o <<Entry("_filters", c, None, stored)>>
                \o <<Entry(IF shown THEN "turnOnControls" ELSE "turnOffControls",
                           c, None, stored)>>)]

\* mutant: the controls are shown whenever the chart is anchored
FilterBody_AlwaysOn(c, fs, v, inner) ==
    LET cand == Candidate(c, fs, v, inner)
        applied == applyFilters(c, cand)
        stored == applied.ret
        thrown == v # None /\ "filtered" \in listeners[c]
        touched == root[c] # "undefined" /\ ~thrown
    IN [filters |-> stored,
        calls |-> applied.calls,
        threw |-> thrown,
        controls |-> IF ~touched THEN controls[c] ELSE "on",
        style |-> IF thrown THEN controlStyle[c] ELSE turnOnControls(c),
        log |-> Interrupt(c,
                <<Entry("applyFilters", c, None, cand)>>
                \o (IF dimension[c] = "crossfilter"
                    THEN <<Entry("filterHandler", c, None, cand)>>
                    ELSE <<>>)
                \o DsEntries(c, applied.calls)
                \o <<Entry("_filters", c, None, stored)>>
                \o (IF v # None THEN <<Entry("filtered", c, v, inner)>> ELSE <<>>)
                \o <<Entry("turnOnControls", c, None, stored)>>)]

\* mutant: a filter handler that throws leaves the list as it was before the call
FilterBody_RolledBack(c, fs, v, inner) ==
    LET cand == Candidate(c, fs, v, inner)
        \* the filter handler throws: _filters is not assigned
        failed == dimension[c] = "throwing"
        applied == IF failed THEN [calls |-> <<>>, ret |-> fs]
                   ELSE applyFilters(c, cand)
        stored == applied.ret
        shown == root[c] # "null" /\ _hasFilterHandler(c, stored, None)
        \* the filtered listener throws: the call ends there
        thrown == failed \/ (v # None /\ "filtered" \in listeners[c])
        touched == root[c] # "undefined" /\ ~thrown
    IN [filters |-> stored,
        calls |-> applied.calls,
        threw |-> thrown,
        controls |-> IF ~touched THEN controls[c] ELSE IF shown THEN "on" ELSE "off",
        style |-> IF thrown THEN controlStyle[c]
                  ELSE IF shown THEN turnOnControls(c) ELSE turnOffControls(c),
        log |-> IF failed
                THEN <<Entry("applyFilters", c, None, cand),
                       Entry("filterHandler", c, None, cand),
                       Entry("HandlerError", c, None, <<>>)>>
                ELSE Interrupt(c,
                <<Entry("applyFilters", c, None, cand)>>
                \o (IF dimension[c] = "crossfilter"
                    THEN <<Entry("filterHandler", c, None, cand)>>
                    ELSE <<>>)
                \o DsEntries(c, applied.calls)
                \o <<Entry("_filters", c, None, stored)>>
                \o (IF v # None THEN <<Entry("filtered", c, v, inner)>> ELSE <<>>)
                \o <<Entry(IF shown THEN "turnOnControls" ELSE "turnOffControls",
                           c, None, stored)>>)]

\* what the array this._filters holds once filter(value) has computed cand
\* from it: the add and remove handlers push and splice the array itself,
\* the reset handler returns a new array
InPlace(fs, v, cand) == IF v.kind = "null" THEN fs ELSE cand

\* the body of filter(value) run on a chart whose _filters is fs: the list it
\* stores, the data-source calls, the controls it leaves and the steps it logs
FilterBody(c, fs, v, inner) ==
    LET cand == Candidate(c, fs, v, inner)
        \* the filter handler throws: _filters is not assigned
        failed == dimension[c] = "throwing"
        applied == IF failed THEN [calls |-> <<>>, ret |-> InPlace(fs, v, cand)]
                   ELSE applyFilters(c, cand)
        stored == applied.ret
        shown == root[c] # "null" /\ _hasFilterHandler(c, stored, None)
        \* the filtered listener throws: the call ends there
        thrown == failed \/ (v # None /\ "filtered" \in listeners[c])
        touched == root[c] # "undefined" /\ ~thrown
    IN [filters |-> stored,
        calls |-> applied.calls,
        threw |-> thrown,
        controls |-> IF ~touched THEN controls[c] ELSE IF shown THEN "on" ELSE "off",
        style |-> IF thrown THEN controlStyle[c]
                  ELSE IF shown THEN turnOnControls(c) ELSE turnOffControls(c),
        log |-> IF failed
                THEN <<Entry("applyFilters", c, None, cand),
                       Entry("filterHandler", c, None, cand),
                       Entry("HandlerError", c, None, <<>>)>>
                ELSE Interrupt(c,
                <<Entry("applyFilters", c, None, cand)>>
                \o (IF dimension[c] = "crossfilter"
                    THEN <<Entry("filterHandler", c, None, cand)>>
                    ELSE <<>>)
                \o DsEntries(c, applied.calls)
                \o <<Entry("_filters", c, None, stored)>>
                \o (IF v # None THEN <<Entry("filtered", c, v, inner)>> ELSE <<>>)
                \o <<Entry(IF shown THEN "turnOnControls" ELSE "turnOffControls",
                           c, None, stored)>>)]

\* the state change of a filter(value) body that started from the list fs
FilterStep(c, fs, v, inner, call) ==
    \E b \in {FilterBody(c, fs, v, inner)} :
       /\ Len(b.filters) <= MaxFilters
       /\ filters' = [filters EXCEPT ![c] = b.filters]
       /\ dsLast' = [dsLast EXCEPT ![c] =
                        IF b.calls = <<>> THEN @ ELSE b.calls[Len(b.calls)]]
       /\ controls' = [controls EXCEPT ![c] = b.controls]
       /\ controlStyle' = [controlStyle EXCEPT ![c] = b.style]
       /\ log' = b.log
       /\ last' = call
       /\ UNCHANGED <<dimension, hasFilterHandler, controlsUseVisibility>>

\* the arguments offered to replaceFilter: one value or null
SingleArgs == {<<v, <<>>>> : v \in Values \cup {Null}}

\* chart.filter(v) for one value of vs
FilterOf(c, vs) ==
    \E v \in vs :
        /\ FilterStep(c, filters[c], v, <<>>, Call("filter", c, v, <<>>, filters[c]))
        /\ UNCHANGED <<geometryVars, lifeVars, anchorVars, commitVars>>

\* chart.filter(v) for one value
Filter(c) == FilterOf(c, Values)

\* chart.filter(null), which is also chart.filterAll() (lines 427-429)
FilterAll(c) ==
    /\ FilterStep(c, filters[c], Null, <<>>, Call("filter", c, Null, <<>>, filters[c]))
    /\ UNCHANGED <<geometryVars, lifeVars, anchorVars, commitVars>>

\* chart.filter([[v1, ..., vn]])
FilterNestedOf(c, args) ==
    \E inner \in args :
        /\ FilterStep(c, filters[c], Nested, inner,
                      Call("filter", c, Nested, inner, filters[c]))
        /\ UNCHANGED <<geometryVars, lifeVars, anchorVars, commitVars>>

FilterNested(c) == FilterNestedOf(c, NestedArgs)

(***************************************************************************)
(* replaceFilter(value), lines 1057-1061.                                   *)
(***************************************************************************)
\* mutant: the stored list is not reset before the toggle
ReplaceFilter_NoReset(c, args) ==
    \E a \in args :
        /\ FilterStep(c, filters[c], a[1], a[2],
                      Call("replaceFilter", c, a[1], a[2], filters[c]))
        /\ UNCHANGED <<geometryVars, lifeVars, anchorVars, commitVars>>

\* mutant: replaceFilter written as filter(null).filter(value)
ReplaceFilter_ViaFilter(c, args) ==
    \E a \in args :
        \E b1 \in {FilterBody(c, filters[c], Null, <<>>)} :
        \E b2 \in {FilterBody(c, b1.filters, a[1], a[2])} :
            /\ Len(b2.filters) <= MaxFilters
            /\ filters' = [filters EXCEPT ![c] = b2.filters]
            /\ dsLast' = [dsLast EXCEPT ![c] =
                            IF b2.calls = <<>> THEN @ ELSE b2.calls[Len(b2.calls)]]
            /\ controls' = [controls EXCEPT ![c] = b2.controls]
            /\ controlStyle' = [controlStyle EXCEPT ![c] = b2.style]
            /\ log' = b1.log \o b2.log
            /\ last' = Call("replaceFilter", c, a[1], a[2], filters[c])
            /\ UNCHANGED <<dimension, hasFilterHandler, controlsUseVisibility,
                           geometryVars, lifeVars, anchorVars, commitVars>>

ReplaceFilter(c, args) ==
    \E a \in args :
        /\ FilterStep(c, _defaultResetFilterHandler(filters[c]), a[1], a[2],
                      Call("replaceFilter", c, a[1], a[2], filters[c]))
        /\ UNCHANGED <<geometryVars, lifeVars, anchorVars, commitVars>>

(***************************************************************************)
(* dimension(d), lines 325-332.                                             *)
(***************************************************************************)
\* d: none, a crossfilter dimension, an object without a filter method, a
\* dimension whose filter methods throw
SetDimensionOf(c, kinds) ==
    \E d \in kinds :
        /\ dimension' = [dimension EXCEPT ![c] = d]
        /\ dsLast' = [dsLast EXCEPT ![c] = NoDsCall]
        /\ log' = <<Entry("expireCache", c, None, <<>>)>>
        /\ last' = Call("dimension", c, None, <<>>, filters[c])
        /\ UNCHANGED <<filters, controls, hasFilterHandler, geometryVars, lifeVars,
                       anchorVars, commitVars, controlsUseVisibility, controlStyle>>

SetDimension(c) == SetDimensionOf(c, {"undefined", "crossfilter", "noFilter"})

(***************************************************************************)
(* Chart attributes set by the configuration accessors.                     *)
(***************************************************************************)
Ev(name, c) == Entry(name, c, None, <<>>)
\* a name, a flag or a group identifier carried by a log entry
Tag(name) == Val(name, 0, 0)
Bool(b) == Tag(IF b THEN "true" ELSE "false")
OpWith(name, c, v) ==
    [op |-> name, c |-> c, v |-> v, inner |-> <<>>, pre |-> <<>>, again |-> FALSE]
Op(name, c) == OpWith(name, c, None)

\* the data source applies the function it was last given to a datum;
\* last.pre: the list of the function, last.inner: what it returned
DimensionTest(c) ==
    /\ dsLast[c].op = "filterFunction"
    /\ \E d \in PredicateData :
          /\ log' = <<Entry("filterFunction.call", c, d, dsLast[c].fs)>>
          /\ last' = [Call("filterFunction.call", c, d, <<>>, dsLast[c].fs) EXCEPT
                        !.inner = <<Bool(filterFunctionPredicate(dsLast[c].fs, d))>>]
    /\ UNCHANGED <<filterVars, geometryVars, lifeVars, anchorVars, commitVars>>

\* group(g), lines 382-390
SetGroup(c) ==
    \E g \in BOOLEAN :
        /\ group' = [group EXCEPT ![c] = g]
        /\ log' = <<Ev("expireCache", c)>>
        /\ last' = OpWith("group", c, Bool(g))
        /\ UNCHANGED <<filterVars, geometryVars, mandatoryAttributesList, legend,
                       transitionDuration, svg, pendingTransitions, anchorVars,
                       commitVars, listeners>>

\* the lists offered to _mandatoryAttributes(list)
MandatoryLists == {<<"dimension", "group">>, <<"group">>, <<>>}

\* _mandatoryAttributes(list), lines 721-727
SetMandatoryAttributes(c) ==
    \E l \in MandatoryLists :
        /\ mandatoryAttributesList' = [mandatoryAttributesList EXCEPT ![c] = l]
        /\ log' = <<>>
        /\ last' = Op("_mandatoryAttributes", c)
        /\ UNCHANGED <<filterVars, geometryVars, group, legend, transitionDuration,
                       svg, pendingTransitions, anchorVars, commitVars, listeners>>

\* legend(l), lines 1480-1487
SetLegend(c) ==
    /\ ~legend[c]
    /\ legend' = [legend EXCEPT ![c] = TRUE]
    /\ log' = <<Ev("legend.parent", c)>>
    /\ last' = Op("legend", c)
    /\ UNCHANGED <<filterVars, geometryVars, group, mandatoryAttributesList,
                   transitionDuration, svg, pendingTransitions, anchorVars, commitVars, listeners>>

\* transitionDuration(d), lines 697-703
SetTransitionDuration(c) ==
    \E d \in {0, 750} :
        /\ transitionDuration' = [transitionDuration EXCEPT ![c] = d]
        /\ log' = <<>>
        /\ last' = Op("transitionDuration", c)
        /\ UNCHANGED <<filterVars, geometryVars, group, mandatoryAttributesList,
                       legend, svg, pendingTransitions, anchorVars, commitVars, listeners>>

(***************************************************************************)
(* hasFilter(filter), lines 933-935, and hasFilterHandler(h), lines 915-921. *)
(***************************************************************************)
\* the arguments offered to hasFilter: a value, null, or none at all
HasFilterArgs == Values \cup {Null, None}

\* hasFilter(filter), lines 933-935; last.inner: the value returned
HasFilter(c) ==
    \E f \in HasFilterArgs :
        /\ log' = <<Entry("hasFilterHandler", c, f, filters[c])>>
        /\ last' = [OpWith("hasFilter", c, f) EXCEPT
                        !.inner = <<Bool(_hasFilterHandler(c, filters[c], f))>>]
        /\ UNCHANGED <<filterVars, geometryVars, lifeVars, anchorVars, commitVars>>

\* hasFilterHandler(h), lines 915-921
SetHasFilterHandler(c) ==
    \E h \in {"default", "never"} :
        /\ hasFilterHandler' = [hasFilterHandler EXCEPT ![c] = h]
        /\ log' = <<>>
        /\ last' = OpWith("hasFilterHandler", c, Tag(h))
        /\ UNCHANGED <<filters, dimension, dsLast, controls, geometryVars, lifeVars,
                       anchorVars, commitVars, controlsUseVisibility, controlStyle>>

(***************************************************************************)
(* Geometry: width() / height() read, lines 197-237, the default            *)
(* calculators, lines 1574-1582, and sizeSvg, lines 581-592.                *)
(***************************************************************************)
\* _widthCalc(element) / _heightCalc(element) for a measured box
CalcValue(calc, min, box) ==
    IF calc.kind = "default"
    THEN IF box # 0 /\ box > min THEN box ELSE min
    ELSE calc.n

\* the arguments offered to width(x) / height(x): a falsy value, a number, a
\* function that returns n
FalsyArg == [kind |-> "falsy", n |-> 0]
NumberArg(n) == [kind |-> "number", n |-> n]
FunctionArg(n) == [kind |-> "function", n |-> n]
SizeArgs == {FalsyArg, NumberArg(300), FunctionArg(250), FunctionArg(NonNumber)}

\* x ? (typeof x === 'function' ? x : utils.constant(x)) : the default calculator
CalcOf(x) ==
    IF x.kind = "falsy" THEN DefaultCalc
    ELSE [kind |-> IF x.kind = "function" THEN "function" ELSE "constant", n |-> x.n]

\* mutant: the setter installs the calculator and keeps the cached value
SetWidth_KeepsCache(c) ==
    \E x \in SizeArgs :
        /\ widthCalc' = [widthCalc EXCEPT ![c] = CalcOf(x)]
        /\ log' = <<>>
        /\ last' = OpWith("width(x)", c, Val(x.kind, x.n, 0))
        /\ UNCHANGED <<filterVars, svgAttr, width, widthCalls, height, heightCalc,
                       heightCalls, minWidth, minHeight, useViewBoxResizing, lifeVars,
                       anchorVars, commitVars>>

\* width(x), lines 234-236
SetWidth(c) ==
    \E x \in SizeArgs :
        /\ widthCalc' = [widthCalc EXCEPT ![c] = CalcOf(x)]
        /\ width' = [width EXCEPT ![c] = Unset]
        /\ widthCalls' = [widthCalls EXCEPT ![c] = 0]
        /\ log' = <<>>
        /\ last' = OpWith("width(x)", c, Val(x.kind, x.n, 0))
        /\ UNCHANGED <<filterVars, svgAttr, height, heightCalc, heightCalls, minWidth,
                       minHeight, useViewBoxResizing, lifeVars, anchorVars, commitVars>>

\* height(x), lines 205-207
SetHeight(c) ==
    \E x \in SizeArgs :
        /\ heightCalc' = [heightCalc EXCEPT ![c] = CalcOf(x)]
        /\ height' = [height EXCEPT ![c] = Unset]
        /\ heightCalls' = [heightCalls EXCEPT ![c] = 0]
        /\ log' = <<>>
        /\ last' = OpWith("height(x)", c, Val(x.kind, x.n, 0))
        /\ UNCHANGED <<filterVars, svgAttr, width, widthCalc, widthCalls, minWidth,
                       minHeight, useViewBoxResizing, lifeVars, anchorVars, commitVars>>

\* the minimums offered to minWidth(m) / minHeight(m)
MinSizes == {200, 400}

\* mutant: the setter of the minimum clears the cached width
SetMinWidth_ClearsCache(c) ==
    \E m \in MinSizes :
        /\ minWidth' = [minWidth EXCEPT ![c] = m]
        /\ width' = [width EXCEPT ![c] = Unset]
        /\ log' = <<>>
        /\ last' = OpWith("minWidth(m)", c, Num(m))
        /\ UNCHANGED <<filterVars, svgAttr, widthCalc, widthCalls, height,
                       heightCalc, heightCalls, minHeight, useViewBoxResizing, lifeVars,
                       anchorVars, commitVars>>

\* minWidth(m), lines 253-254
SetMinWidth(c) ==
    \E m \in MinSizes :
        /\ minWidth' = [minWidth EXCEPT ![c] = m]
        /\ log' = <<>>
        /\ last' = OpWith("minWidth(m)", c, Num(m))
        /\ UNCHANGED <<filterVars, svgAttr, width, widthCalc, widthCalls, height,
                       heightCalc, heightCalls, minHeight, useViewBoxResizing, lifeVars,
                       anchorVars, commitVars>>

\* minHeight(m), lines 271-272
SetMinHeight(c) ==
    \E m \in MinSizes :
        /\ minHeight' = [minHeight EXCEPT ![c] = m]
        /\ log' = <<>>
        /\ last' = OpWith("minHeight(m)", c, Num(m))
        /\ UNCHANGED <<filterVars, svgAttr, width, widthCalc, widthCalls, height,
                       heightCalc, heightCalls, minWidth, useViewBoxResizing, lifeVars,
                       anchorVars, commitVars>>

\* mutant: the read calls the calculator whether or not a number is cached
ReadSize_NoCache(c, name, cached, calc, min, box) ==
    IF root[c] = "undefined"
    THEN [threw |-> TRUE, value |-> cached, calls |-> 0,
          log |-> <<Entry("TypeError", c, None, <<>>)>>, inner |-> <<>>]
    ELSE [threw |-> FALSE, value |-> CalcValue(calc, min, box), calls |-> 1,
          log |-> <<Ev(name, c)>>, inner |-> <<Num(box)>>]

\* a read of a cached size: the value returned, the steps logged and the box
\* measured; name: the calculator, cached: _width / _height
ReadSize(c, name, cached, calc, min, box) ==
    IF root[c] = "undefined" /\ ~IsNumber(cached)
    THEN \* this._root.node() on an undefined _root
         [threw |-> TRUE, value |-> cached, calls |-> 0,
          log |-> <<Entry("TypeError", c, None, <<>>)>>, inner |-> <<>>]
    ELSE IF IsNumber(cached)
    THEN [threw |-> FALSE, value |-> cached, calls |-> 0, log |-> <<>>, inner |-> <<>>]
    ELSE [threw |-> FALSE, value |-> CalcValue(calc, min, box), calls |-> 1,
          log |-> <<Ev(name, c)>>, inner |-> <<Num(box)>>]

\* width(), lines 227-233; last.v: the value returned
GetWidth(c) ==
    \E box \in BoxSizes :
    \E r \in {ReadSize(c, "_widthCalc", width[c], widthCalc[c], minWidth[c], box)} :
        /\ widthCalls[c] + r.calls <= MaxCalls
        /\ width' = [width EXCEPT ![c] = r.value]
        /\ widthCalls' = [widthCalls EXCEPT ![c] = @ + r.calls]
        /\ log' = r.log
        /\ last' = [OpWith("width()", c, Num(r.value)) EXCEPT !.inner = r.inner]
        /\ UNCHANGED <<filterVars, svgAttr, height, widthCalc, heightCalc, heightCalls,
                       minWidth, minHeight, useViewBoxResizing, lifeVars, anchorVars,
                       commitVars>>

\* height(), lines 198-204; last.v: the value returned
GetHeight(c) ==
    \E box \in BoxSizes :
    \E r \in {ReadSize(c, "_heightCalc", height[c], heightCalc[c], minHeight[c], box)} :
        /\ heightCalls[c] + r.calls <= MaxCalls
        /\ height' = [height EXCEPT ![c] = r.value]
        /\ heightCalls' = [heightCalls EXCEPT ![c] = @ + r.calls]
        /\ log' = r.log
        /\ last' = [OpWith("height()", c, Num(r.value)) EXCEPT !.inner = r.inner]
        /\ UNCHANGED <<filterVars, svgAttr, width, widthCalc, heightCalc, widthCalls,
                       minWidth, minHeight, useViewBoxResizing, lifeVars, anchorVars,
                       commitVars>>

\* the calculator calls made on chart c since its sizes were cleared, once the
\* calls logged in lg are added
CalcCalls(c, lg) ==
    [width |-> widthCalls[c]
               + Len(SelectSeq(lg, LAMBDA e : e.ev = "_widthCalc" /\ e.c = c)),
     height |-> heightCalls[c]
               + Len(SelectSeq(lg, LAMBDA e : e.ev = "_heightCalc" /\ e.c = c))]

\* what sizeSvg does to the cache and to the svg of chart c when the anchor
\* measures bw x bh
sizeSvg(c, bw, bh) ==
    LET w == IF IsNumber(width[c]) THEN width[c]
             ELSE CalcValue(widthCalc[c], minWidth[c], bw)
        h == IF IsNumber(height[c]) THEN height[c]
             ELSE CalcValue(heightCalc[c], minHeight[c], bh)
        reads == svg[c] /\ (~useViewBoxResizing[c] \/ svgAttr[c].viewBox = <<>>)
    IN [width |-> IF reads THEN w ELSE width[c],
        height |-> IF reads THEN h ELSE height[c],
        attr |-> IF ~svg[c] THEN svgAttr[c]
                 ELSE IF ~useViewBoxResizing[c]
                      THEN [svgAttr[c] EXCEPT !.width = w, !.height = h]
                 ELSE IF svgAttr[c].viewBox = <<>>
                      THEN [svgAttr[c] EXCEPT !.viewBox = <<0, 0, w, h>>]
                 ELSE svgAttr[c],
        log |-> (IF reads /\ ~IsNumber(width[c]) THEN <<Ev("_widthCalc", c)>> ELSE <<>>)
                \o (IF reads /\ ~IsNumber(height[c]) THEN <<Ev("_heightCalc", c)>>
                    ELSE <<>>)]

(***************************************************************************)
(* options(opts), lines 1511-1536.                                          *)
(***************************************************************************)
\* the names options() spreads an array value for, lines 1512-1522
applyOptions == {"anchor", "group", "xAxisLabel", "yAxisLabel", "stack", "title",
                 "point", "getColor", "overlayGeoJson"}
\* typeof this[o] === 'function' for the keys offered, on a chart that has
\* the methods of BaseMixin only
IsMethod(o) == o \in {"group", "width"}
\* the keys offered: a method on the list, a method off the list, a name on
\* the list that is no method of the chart, a name that is neither
OptionKeys == {"group", "width", "xAxisLabel", "bogus"}

\* a value of opts: an array of elements or, with array FALSE, its one element
Scalar(x) == [array |-> FALSE, elems |-> <<x>>]
Array(xs) == [array |-> TRUE, elems |-> xs]
OptionValues == {Scalar(Num(300)), Array(<<Num(300), Num(1)>>), Array(<<>>)}
\* the value as one argument
AsArgument(val) == IF val.array THEN Val("array", Len(val.elems), 0) ELSE val.elems[1]

\* opts: key/value pairs in the order for..in visits them, the keys distinct
Option(o, val) == [key |-> o, val |-> val]
OptionLists ==
    {<<>>}
    \cup {<<Option(o, val)>> : o \in OptionKeys, val \in OptionValues}
    \cup {<<Option(t[1], t[2]), Option(t[3], Scalar(Num(300)))>> :
            t \in {u \in OptionKeys \X OptionValues \X {"width", "bogus"} :
                      u[1] # u[3]}}

\* mutant: an array value is spread for every method
OptionArgs_AlwaysSpread(o, val) == IF val.array THEN val.elems ELSE <<AsArgument(val)>>

\* the arguments this[o] is called with, lines 1526-1530
OptionArgs(o, val) ==
    IF val.array /\ o \in applyOptions THEN val.elems ELSE <<AsArgument(val)>>

\* what the methods offered do to the fields st of the chart when called
\* with args: group(group, name), lines 382-390, and width(width), lines
\* 226-237
CallMethod(st, o, args) ==
    CASE o = "group" ->
            IF args = <<>> THEN st ELSE [st EXCEPT !.group = TRUE]
      [] o = "width" ->
            IF args = <<>> THEN st
            ELSE
            [st EXCEPT !.widthCalc =
                          IF args[1].kind = "array"
                          THEN [kind |-> "constant", n |-> NonNumber]
                          ELSE CalcOf(NumberArg(args[1].a)),
                       !.width = Unset,
                       !.widthCalls = 0]
      [] OTHER -> st

\* for (let o in opts) ...: the fields of the chart and the steps logged
RECURSIVE ApplyOptions(_, _, _)
ApplyOptions(c, st, opts) ==
    IF opts = <<>> THEN [st |-> st, log |-> <<>>]
    ELSE LET o == Head(opts).key
             args == OptionArgs(o, Head(opts).val)
             rest == ApplyOptions(c, IF IsMethod(o) THEN CallMethod(st, o, args) ELSE st,
                                  Tail(opts))
         IN [st |-> rest.st,
             log |-> <<IF IsMethod(o) THEN Entry("call", c, Tag(o), args)
                       ELSE Entry("logger.debug", c, Tag(o), <<>>)>> \o rest.log]

\* chart.options(opts); last.inner: opts
Options(c) ==
    \E opts \in OptionLists :
    \E r \in {ApplyOptions(c, [group |-> group[c], widthCalc |-> widthCalc[c],
                               width |-> width[c], widthCalls |-> widthCalls[c]],
                           opts)} :
        /\ group' = [group EXCEPT ![c] = r.st.group]
        /\ widthCalc' = [widthCalc EXCEPT ![c] = r.st.widthCalc]
        /\ width' = [width EXCEPT ![c] = r.st.width]
        /\ widthCalls' = [widthCalls EXCEPT ![c] = r.st.widthCalls]
        /\ log' = r.log \o <<Ev("return this", c)>>
        /\ last' = [OpWith("options", c, None) EXCEPT !.inner = opts]
        /\ UNCHANGED <<filterVars, svgAttr, height, heightCalc, heightCalls, minWidth,
                       minHeight, useViewBoxResizing, mandatoryAttributesList, legend,
                       transitionDuration, svg, pendingTransitions, listeners,
                       anchorVars, commitVars>>

(***************************************************************************)
(* render(), lines 746-763, redraw(), lines 796-809, and                    *)
(* _activateRenderlets, lines 765-781.                                      *)
(***************************************************************************)
\* this[a] && this[a]() for the accessor named a
AttributeSet(c, a) ==
    CASE a = "dimension" -> dimension[c] # "undefined"
      [] a = "group" -> group[c]
      [] OTHER -> FALSE

\* mutant: the end callback fires postRender whatever event it was started for
_activateRenderlets_SharedEvent(c, event) ==
    IF transitionDuration[c] > 0 /\ svg[c]
    THEN [log |-> <<Ev("pretransition", c)>>,
          sched |-> <<[c |-> c, event |-> "postRender"]>>]
    ELSE [log |-> <<Ev("pretransition", c), Ev("renderlet", c), Ev(event, c)>>,
          sched |-> <<>>]

\* mutant: a transition is started whether or not there is a svg
_activateRenderlets_IgnoresSvg(c, event) ==
    IF transitionDuration[c] > 0
    THEN [log |-> <<Ev("pretransition", c)>>,
          sched |-> <<[c |-> c, event |-> event]>>]
    ELSE [log |-> <<Ev("pretransition", c), Ev("renderlet", c), Ev(event, c)>>,
          sched |-> <<>>]

\* _activateRenderlets(event): what it fires now and the transition it starts
_activateRenderlets(c, event) ==
    IF transitionDuration[c] > 0 /\ svg[c]
    THEN [log |-> <<Ev("pretransition", c)>>,
          sched |-> <<[c |-> c, event |-> event]>>]
    ELSE [log |-> <<Ev("pretransition", c), Ev("renderlet", c), Ev(event, c)>>,
          sched |-> <<>>]

\* this._height = this._width = undefined, line 747
ClearSize(c) == Ev("_width = undefined", c)

\* mutant: every name of the list is checked before the failure is raised
Checks_WholeList(c, list, n) ==
    [i \in 1..Len(list) |->
        Entry("checkForMandatoryAttributes", c, Val(list[i], 0, 0), <<>>)]

\* checkForMandatoryAttributes(e) called for the first n names of the list
RECURSIVE Checks(_, _, _)
Checks(c, list, n) ==
    IF n = 0 THEN <<>>
    ELSE Append(Checks(c, list, n - 1),
                Entry("checkForMandatoryAttributes", c, Tag(list[n]), <<>>))

\* what the draw hook this._doRender() returns
DrawResult(c) == Entry("_doRender()", c, None, <<>>)

\* mutant: the legend is rendered before the draw hook runs
RenderBody_LegendFirst(c) ==
    LET list == mandatoryAttributesList[c]
        bad == {i \in 1..Len(list) : ~AttributeSet(c, list[i])}
        first == CHOOSE i \in bad : \A j \in bad : i <= j
        tail == _activateRenderlets(c, "postRender")
    IN Dispatching(c,
       IF bad # {}
       THEN [threw |-> TRUE,
             result |-> <<>>,
             log |-> <<ClearSize(c), Ev("preRender", c)>> \o Checks(c, list, first)
                     \o <<Entry("InvalidStateException", c, Tag(list[first]), <<>>)>>,
             sched |-> <<>>]
       ELSE [threw |-> FALSE,
             result |-> <<DrawResult(c)>>,
             log |-> <<ClearSize(c), Ev("preRender", c)>> \o Checks(c, list, Len(list))
                     \o (IF legend[c] THEN <<Ev("legend.render", c)>> ELSE <<>>)
                     \o <<Ev("_doRender", c)>>
                     \o tail.log,
             sched |-> tail.sched])

\* mutant: the mandatory attributes are checked after the draw hook has run
RenderBody_CheckAfterDraw(c) ==
    LET list == mandatoryAttributesList[c]
        bad == {i \in 1..Len(list) : ~AttributeSet(c, list[i])}
        first == CHOOSE i \in bad : \A j \in bad : i <= j
        tail == _activateRenderlets(c, "postRender")
    IN Dispatching(c,
       IF bad # {}
       THEN [threw |-> TRUE,
             result |-> <<>>,
             log |-> <<ClearSize(c), Ev("preRender", c), Ev("_doRender", c)>>
                     \o Checks(c, list, first)
                     \o <<Entry("InvalidStateException", c, Tag(list[first]), <<>>)>>,
             sched |-> <<>>]
       ELSE [threw |-> FALSE,
             result |-> <<DrawResult(c)>>,
             log |-> <<ClearSize(c), Ev("preRender", c), Ev("_doRender", c)>>
                     \o Checks(c, list, Len(list))
                     \o (IF legend[c] THEN <<Ev("legend.render", c)>> ELSE <<>>)
                     \o tail.log,
             sched |-> tail.sched])

\* the body of render() on chart c: its steps, the transition it starts and
\* the value it returns (none when it throws)
RenderBody(c) ==
    LET list == mandatoryAttributesList[c]
        bad == {i \in 1..Len(list) : ~AttributeSet(c, list[i])}
        first == CHOOSE i \in bad : \A j \in bad : i <= j
        tail == _activateRenderlets(c, "postRender")
    IN Dispatching(c,
       IF bad # {}
       THEN [threw |-> TRUE,
             result |-> <<>>,
             log |-> <<ClearSize(c), Ev("preRender", c)>> \o Checks(c, list, first)
                     \o <<Entry("InvalidStateException", c, Tag(list[first]), <<>>)>>,
             sched |-> <<>>]
       ELSE [threw |-> FALSE,
             result |-> <<DrawResult(c)>>,
             log |-> <<ClearSize(c), Ev("preRender", c)>> \o Checks(c, list, Len(list))
                     \o <<Ev("_doRender", c)>>
                     \o (IF legend[c] THEN <<Ev("legend.render", c)>> ELSE <<>>)
                     \o tail.log,
             sched |-> tail.sched])

\* mutant: redraw() checks the mandatory attributes as render() does
RedrawBody_Validates(c, bw, bh) ==
    LET size == sizeSvg(c, bw, bh)
        list == mandatoryAttributesList[c]
        bad == {i \in 1..Len(list) : ~AttributeSet(c, list[i])}
        first == CHOOSE i \in bad : \A j \in bad : i <= j
        tail == _activateRenderlets(c, "postRedraw")
    IN Dispatching(c,
       IF bad # {}
       THEN [size |-> size,
             threw |-> TRUE,
             log |-> size.log \o <<Ev("preRedraw", c)>> \o Checks(c, list, first)
                     \o <<Entry("InvalidStateException", c, Tag(list[first]), <<>>)>>,
             sched |-> <<>>]
       ELSE [size |-> size,
             threw |-> FALSE,
             log |-> size.log \o <<Ev("preRedraw", c), Ev("_doRedraw", c)>>
                     \o (IF legend[c] THEN <<Ev("legend.render", c)>> ELSE <<>>)
                     \o tail.log,
             sched |-> tail.sched])

\* the body of redraw() on chart c when the anchor measures bw x bh
RedrawBody(c, bw, bh) ==
    LET size == sizeSvg(c, bw, bh)
        tail == _activateRenderlets(c, "postRedraw")
    IN Dispatching(c,
       [size |-> size,
        threw |-> FALSE,
        log |-> size.log \o <<Ev("preRedraw", c), Ev("_doRedraw", c)>>
                \o (IF legend[c] THEN <<Ev("legend.render", c)>> ELSE <<>>)
                \o tail.log,
        sched |-> tail.sched])

\* chart.render()
Render(c) ==
    \E b \in {RenderBody(c)} :
        /\ Len(pendingTransitions) + Len(b.sched) <= MaxPending
        /\ width' = [width EXCEPT ![c] = Unset]
        /\ height' = [height EXCEPT ![c] = Unset]
        /\ widthCalls' = [widthCalls EXCEPT ![c] = 0]
        /\ heightCalls' = [heightCalls EXCEPT ![c] = 0]
        /\ pendingTransitions' = pendingTransitions \o b.sched
        /\ log' = b.log
        /\ last' = [Op("render", c) EXCEPT !.inner = IF b.threw THEN <<>> ELSE b.result]
        /\ UNCHANGED <<filterVars, svgAttr, widthCalc, heightCalc, minWidth, minHeight,
                       useViewBoxResizing, group, mandatoryAttributesList, legend,
                       transitionDuration, svg, anchorVars, commitVars, listeners>>

\* chart.redraw()
Redraw(c) ==
    \E bw \in BoxSizes, bh \in BoxSizes :
    \E b \in {RedrawBody(c, bw, bh)} :
        /\ Len(pendingTransitions) + Len(b.sched) <= MaxPending
        /\ CalcCalls(c, b.log).width <= MaxCalls
        /\ CalcCalls(c, b.log).height <= MaxCalls
        /\ width' = [width EXCEPT ![c] = b.size.width]
        /\ height' = [height EXCEPT ![c] = b.size.height]
        /\ widthCalls' = [widthCalls EXCEPT ![c] = CalcCalls(c, b.log).width]
        /\ heightCalls' = [heightCalls EXCEPT ![c] = CalcCalls(c, b.log).height]
        /\ svgAttr' = [svgAttr EXCEPT ![c] = b.size.attr]
        /\ pendingTransitions' = pendingTransitions \o b.sched
        /\ log' = b.log
        /\ last' = Op("redraw", c)
        /\ UNCHANGED <<filterVars, widthCalc, heightCalc, minWidth, minHeight,
                       useViewBoxResizing, group, mandatoryAttributesList, legend,
                       transitionDuration, svg, anchorVars, commitVars, listeners>>

\* the 'end' callback of the transition started first runs
TransitionEnd ==
    /\ pendingTransitions # <<>>
    /\ LET t == Head(pendingTransitions)
       IN /\ log' = Interrupt(t.c, <<Ev("renderlet", t.c), Ev(t.event, t.c)>>)
          /\ last' = Op("transitionEnd", t.c)
    /\ pendingTransitions' = Tail(pendingTransitions)
    /\ UNCHANGED <<filterVars, geometryVars, group, mandatoryAttributesList, legend,
                   transitionDuration, svg, anchorVars, commitVars, listeners>>

\* useViewBoxResizing(b), lines 298-304
SetUseViewBoxResizing(c) ==
    \E b \in BOOLEAN :
        /\ useViewBoxResizing' = [useViewBoxResizing EXCEPT ![c] = b]
        /\ log' = <<>>
        /\ last' = OpWith("useViewBoxResizing", c, Bool(b))
        /\ UNCHANGED <<filterVars, svgAttr, width, widthCalc, widthCalls, height,
                       heightCalc, heightCalls, minWidth, minHeight, lifeVars,
                       anchorVars, commitVars>>

\* resetSvg(), lines 576-579, with generateSvg, lines 594-598
ResetSvg(c) ==
    /\ root[c] # "undefined"
    /\ \E bw \in BoxSizes, bh \in BoxSizes :
         LET w == IF IsNumber(width[c]) THEN width[c]
                  ELSE CalcValue(widthCalc[c], minWidth[c], bw)
             h == IF IsNumber(height[c]) THEN height[c]
                  ELSE CalcValue(heightCalc[c], minHeight[c], bh)
         IN /\ log' = (IF ~IsNumber(width[c]) THEN <<Ev("_widthCalc", c)>> ELSE <<>>)
                      \o (IF ~IsNumber(height[c]) THEN <<Ev("_heightCalc", c)>> ELSE <<>>)
            /\ svg' = [svg EXCEPT ![c] = TRUE]
            /\ width' = [width EXCEPT ![c] = w]
            /\ height' = [height EXCEPT ![c] = h]
            /\ CalcCalls(c, log').width <= MaxCalls
            /\ CalcCalls(c, log').height <= MaxCalls
            /\ widthCalls' = [widthCalls EXCEPT ![c] = CalcCalls(c, log').width]
            /\ heightCalls' = [heightCalls EXCEPT ![c] = CalcCalls(c, log').height]
            /\ svgAttr' = [svgAttr EXCEPT ![c] =
                            IF useViewBoxResizing[c]
                            THEN [NoAttr EXCEPT !.viewBox = <<0, 0, w, h>>]
                            ELSE [NoAttr EXCEPT !.width = w, !.height = h]]
    /\ last' = Op("resetSvg", c)
    /\ UNCHANGED <<filterVars, widthCalc, heightCalc, minWidth, minHeight,
                   useViewBoxResizing, group, mandatoryAttributesList, legend,
                   transitionDuration, pendingTransitions, anchorVars, commitVars, listeners>>

(***************************************************************************)
(* The chart registry (core/core: registerChart, deregisterChart,           *)
(* renderAll, redrawAll).                                                    *)
(***************************************************************************)
Members(map, g) == {map[g][i] : i \in 1..Len(map[g])}
GroupsOf(map, c) == {g \in GroupIds : c \in Members(map, g)}

\* a group is an insertion-ordered set of charts
registerChart(map, c, g) ==
    IF c \in Members(map, g) THEN map
    ELSE [map EXCEPT ![g] = Append(@, c)]

deregisterChart(map, c, g) ==
    [map EXCEPT ![g] = SelectSeq(@, LAMBDA m : m # c)]

(***************************************************************************)
(* anchor(parent, chartGroup), lines 483-509, and chartGroup(chartGroup),   *)
(* lines 1438-1450.                                                          *)
(***************************************************************************)
\* the call anchor(parent, g); last.inner: the parent
AnchorCall(c, kind, p, g) ==
    [OpWith("anchor", c, Tag(g)) EXCEPT !.inner = <<Val(kind, p, 0)>>]

\* anchor(parent, g) with another chart as parent
AnchorToChart(c, p, g) ==
    /\ last' = AnchorCall(c, "chart", p, g)
    /\ IF anchor[p] = "undefined"
       THEN \* parent.anchor() is undefined: reading its .children throws
            /\ anchor' = [anchor EXCEPT ![c] = "undefined"]
            /\ log' = <<Entry("TypeError", c, None, <<>>)>>
            /\ UNCHANGED <<root, isChild, chartGroup, chartMap>>
       ELSE /\ anchor' = [anchor EXCEPT ![c] = anchor[p]]
            /\ root' = [root EXCEPT ![c] = root[p]]
            /\ isChild' = [isChild EXCEPT ![c] = "true"]
            /\ chartGroup' = [chartGroup EXCEPT ![c] = g]
            /\ log' = <<>>
            /\ UNCHANGED chartMap

\* anchor(parent, g) with a selector as parent
AnchorToSelector(c, sel, g) ==
    /\ last' = AnchorCall(c, "selector", 0, g)
    /\ anchor' = [anchor EXCEPT ![c] = sel]
    /\ root' = [root EXCEPT ![c] = sel]
    /\ chartMap' = registerChart(chartMap, c, g)
    /\ isChild' = [isChild EXCEPT ![c] = "false"]
    /\ chartGroup' = [chartGroup EXCEPT ![c] = g]
    /\ log' = <<Entry("registerChart", c, Tag(g), <<>>)>>

\* mutant: the group is recorded before the parent is looked at
AnchorToNothing_RecordsGroup(c, g) ==
    /\ last' = AnchorCall(c, "falsy", 0, g)
    /\ log' = <<Entry("BadArgumentException", c, None, <<>>)>>
    /\ chartGroup' = [chartGroup EXCEPT ![c] = g]
    /\ UNCHANGED <<anchor, root, isChild, chartMap>>

\* anchor(parent, g) with a falsy parent
AnchorToNothing(c, g) ==
    /\ last' = AnchorCall(c, "falsy", 0, g)
    /\ log' = <<Entry("BadArgumentException", c, None, <<>>)>>
    /\ UNCHANGED anchorVars

\* the parents offered to anchor: a chart, a selector, a falsy value
ParentChart(p) == [kind |-> "chart", chart |-> p, sel |-> ""]
ParentSelector(sel) == [kind |-> "selector", chart |-> 0, sel |-> sel]
NoParent == [kind |-> "falsy", chart |-> 0, sel |-> ""]
SelectorParents == {ParentSelector(sel) : sel \in Selectors}
AllParents(c) ==
    {ParentChart(p) : p \in Charts \ {c}} \cup SelectorParents \cup {NoParent}

\* chart.anchor(parent, g)
Anchor(c, parents, groups) ==
    /\ \E parent \in parents, g \in groups :
         IF parent.kind = "chart" THEN AnchorToChart(c, parent.chart, g)
         ELSE IF parent.kind = "selector" THEN AnchorToSelector(c, parent.sel, g)
         ELSE AnchorToNothing(c, g)
    /\ UNCHANGED <<filterVars, geometryVars, lifeVars, commitVars>>

\* chart.chartGroup(g)
ChartGroup(c) ==
    \E g \in GroupIds :
        LET left == IF isChild[c] # "true"
                    THEN deregisterChart(chartMap, c, chartGroup[c])
                    ELSE chartMap
        IN /\ chartGroup' = [chartGroup EXCEPT ![c] = g]
           /\ chartMap' = IF isChild[c] # "true" THEN registerChart(left, c, g) ELSE left
           /\ log' = IF isChild[c] # "true"
                     THEN <<Entry("deregisterChart", c, Tag(chartGroup[c]), <<>>),
                            Entry("registerChart", c, Tag(g), <<>>)>>
                     ELSE <<>>
           /\ last' = OpWith("chartGroup", c, Tag(g))
           /\ UNCHANGED <<anchor, root, isChild, filterVars, geometryVars, lifeVars,
                          commitVars>>

(***************************************************************************)
(* Group-wide render and redraw: renderAll / redrawAll of the registry,     *)
(* redrawGroup, lines 842-855, renderGroup, lines 865-878, and the commit   *)
(* handler, lines 825-831.                                                  *)
(***************************************************************************)
\* the members render() is called on: all of them, or, when one fails and
\* the pass stops at a failure, those up to the first that fails
RECURSIVE UpToFirstFailure(_, _)
UpToFirstFailure(ms, b) ==
    IF ms = <<>> THEN <<>>
    ELSE IF b[Head(ms)].threw THEN <<Head(ms)>>
    ELSE <<Head(ms)>> \o UpToFirstFailure(Tail(ms), b)

\* b: the body of render() of each member
RECURSIVE RenderLogs(_, _)
RenderLogs(ms, b) ==
    IF ms = <<>> THEN <<>>
    ELSE <<Ev("render", Head(ms))>> \o b[Head(ms)].log \o RenderLogs(Tail(ms), b)

RECURSIVE RenderScheds(_, _)
RenderScheds(ms, b) ==
    IF ms = <<>> THEN <<>> ELSE b[Head(ms)].sched \o RenderScheds(Tail(ms), b)

\* b: the body of redraw() of each member
RECURSIVE RedrawLogs(_, _)
RedrawLogs(ms, b) ==
    IF ms = <<>> THEN <<>>
    ELSE <<Ev("redraw", Head(ms))>> \o b[Head(ms)].log \o RedrawLogs(Tail(ms), b)

RECURSIVE RedrawScheds(_, _)
RedrawScheds(ms, b) ==
    IF ms = <<>> THEN <<>> ELSE b[Head(ms)].sched \o RedrawScheds(Tail(ms), b)

InSeq(ms) == {ms[i] : i \in 1..Len(ms)}

\* renderAll(g): render() on every member in registration order; a render()
\* that throws either ends the pass, the exception reaching the caller, or is
\* passed over; ret: what the caller does when the pass returns
renderAll(g, ret) ==
    \E stopAtFailure \in BOOLEAN :
    \E b \in {[c \in InSeq(chartMap[g]) |-> RenderBody(c)]} :
    \E ms \in {IF stopAtFailure THEN UpToFirstFailure(chartMap[g], b) ELSE chartMap[g]} :
    \E in \in {InSeq(ms)}, sched \in {RenderScheds(ms, b)} :
        /\ stopAtFailure => \E i \in 1..Len(ms) : b[ms[i]].threw
        /\ Len(pendingTransitions) + Len(sched) <= MaxPending
        /\ width' = [c \in Charts |-> IF c \in in THEN Unset ELSE width[c]]
        /\ height' = [c \in Charts |-> IF c \in in THEN Unset ELSE height[c]]
        /\ widthCalls' = [c \in Charts |-> IF c \in in THEN 0 ELSE widthCalls[c]]
        /\ heightCalls' = [c \in Charts |-> IF c \in in THEN 0 ELSE heightCalls[c]]
        /\ pendingTransitions' = pendingTransitions \o sched
        /\ log' = <<Entry("renderAll", 0, Tag(g), <<>>)>> \o RenderLogs(ms, b)
                   \o (IF stopAtFailure THEN <<Entry("throw", 0, Tag(g), <<>>)>>
                       ELSE ret)
        /\ UNCHANGED svgAttr

\* redrawAll(g): redraw() on every member in registration order; a redraw()
\* that throws either ends the pass, the exception reaching the caller, or is
\* passed over; pre: the steps of the caller before the pass, ret: what the
\* caller does when the pass returns
redrawAllAfter(g, pre, ret) ==
    \E bw \in BoxSizes, bh \in BoxSizes, stopAtFailure \in BOOLEAN :
    \E b \in {[c \in InSeq(chartMap[g]) |-> RedrawBody(c, bw, bh)]} :
    \E ms \in {IF stopAtFailure THEN UpToFirstFailure(chartMap[g], b) ELSE chartMap[g]} :
    \E in \in {InSeq(ms)} :
    \E calls \in {[c \in in |-> CalcCalls(c, b[c].log)]}, sched \in {RedrawScheds(ms, b)} :
        /\ stopAtFailure => \E i \in 1..Len(ms) : b[ms[i]].threw
        /\ Len(pendingTransitions) + Len(sched) <= MaxPending
        /\ width' = [c \in Charts |-> IF c \in in THEN b[c].size.width ELSE width[c]]
        /\ height' = [c \in Charts |-> IF c \in in THEN b[c].size.height ELSE height[c]]
        /\ svgAttr' = [c \in Charts |-> IF c \in in THEN b[c].size.attr ELSE svgAttr[c]]
        /\ \A c \in in : calls[c].width <= MaxCalls /\ calls[c].height <= MaxCalls
        /\ widthCalls' = [c \in Charts |-> IF c \in in THEN calls[c].width
                                           ELSE widthCalls[c]]
        /\ heightCalls' = [c \in Charts |-> IF c \in in THEN calls[c].height
                                            ELSE heightCalls[c]]
        /\ pendingTransitions' = pendingTransitions \o sched
        /\ log' = pre \o <<Entry("redrawAll", 0, Tag(g), <<>>)>> \o RedrawLogs(ms, b)
                   \o (IF stopAtFailure THEN <<Entry("throw", 0, Tag(g), <<>>)>>
                       ELSE ret)

redrawAll(g, ret) == redrawAllAfter(g, <<>>, ret)

\* what a group-wide pass leaves alone
FanOutFrame ==
    UNCHANGED <<filterVars, widthCalc, heightCalc, minWidth, minHeight,
                useViewBoxResizing, group, mandatoryAttributesList, legend,
                transitionDuration, svg, anchorVars, commitHandler,
            listeners, pendingTriggers>>

\* commitHandler(h), lines 825-831
SetCommitHandler(c) ==
    \E h \in BOOLEAN :
        /\ commitHandler' = [commitHandler EXCEPT ![c] = h]
        /\ log' = <<>>
        /\ last' = OpWith("commitHandler", c, Bool(h))
        /\ UNCHANGED <<filterVars, geometryVars, lifeVars, anchorVars, pendingCommits, pendingTriggers>>

\* mutant: handing the pass to the commit handler clears the chart's filters
Commit_ClearsFilters(c, flag, kind) ==
    /\ Len(pendingCommits) < MaxPending
    /\ pendingCommits' = Append(pendingCommits, [c |-> c, kind |-> kind, asked |-> chartGroup[c]])
    /\ log' = <<Entry("commitHandler", c, Bool(flag), <<>>), Ev("return this", c)>>
    /\ filters' = [filters EXCEPT ![c] = <<>>]
    /\ UNCHANGED <<dimension, dsLast, controls, hasFilterHandler, controlsUseVisibility,
                   controlStyle, geometryVars, lifeVars, anchorVars, commitHandler, pendingTriggers>>

\* mutant: a call made while a commit is pending is folded into that commit
Commit_Coalesced(c, flag, kind) ==
    /\ Len(pendingCommits) < MaxPending
    /\ IF pendingCommits = <<>>
       THEN /\ pendingCommits' = Append(pendingCommits,
                                        [c |-> c, kind |-> kind, asked |-> chartGroup[c]])
            /\ log' = <<Entry("commitHandler", c, Bool(flag), <<>>), Ev("return this", c)>>
       ELSE /\ log' = <<Ev("return this", c)>>
            /\ UNCHANGED pendingCommits
    /\ UNCHANGED <<filterVars, geometryVars, lifeVars, anchorVars, commitHandler, pendingTriggers>>

\* the commit handler is called with a flag and a completion callback, which
\* it keeps; kind: the pass the callback makes when it completes without
\* error; asked: the chart's group at this moment, which the callback does
\* not hold and which is recorded for the properties only
Commit(c, flag, kind) ==
    /\ Len(pendingCommits) < MaxPending
    /\ pendingCommits' = Append(pendingCommits,
                                [c |-> c, kind |-> kind, asked |-> chartGroup[c]])
    /\ log' = <<Entry("commitHandler", c, Bool(flag), <<>>), Ev("return this", c)>>
    /\ UNCHANGED <<filterVars, geometryVars, lifeVars, anchorVars, commitHandler, pendingTriggers>>

\* mutant: the pass is handed to the commit handler even when there is none
RedrawGroup_AlwaysCommits(c) ==
    /\ last' = Op("redrawGroup", c)
    /\ Commit(c, FALSE, "redrawAll")

\* chart.redrawGroup()
RedrawGroup(c) ==
    /\ last' = Op("redrawGroup", c)
    /\ IF commitHandler[c]
       THEN Commit(c, FALSE, "redrawAll")
       ELSE /\ redrawAll(chartGroup[c], <<Ev("return this", c)>>)
            /\ FanOutFrame /\ UNCHANGED pendingCommits

\* mutant: the pass goes over the default group instead of chartGroup()
RenderGroup_DefaultGroup(c) ==
    /\ last' = Op("renderGroup", c)
    /\ IF commitHandler[c]
       THEN Commit(c, FALSE, "renderAll")
       ELSE /\ renderAll(DEFAULT_CHART_GROUP, <<Ev("return this", c)>>)
            /\ FanOutFrame /\ UNCHANGED pendingCommits

\* chart.renderGroup()
RenderGroup(c) ==
    /\ last' = Op("renderGroup", c)
    /\ IF commitHandler[c]
       THEN Commit(c, FALSE, "renderAll")
       ELSE /\ renderAll(chartGroup[c], <<Ev("return this", c)>>)
            /\ FanOutFrame /\ UNCHANGED pendingCommits

\* the completion callback i is invoked; last.inner: the pass it was made
\* for and the group the chart had when it was made, last.pre: its place
\* when the handler keeps it, last.again: the handler had invoked it without
\* an error in the step before
Invoked(i, error, keep) ==
    LET p == pendingCommits[i]
    IN [OpWith("callback", p.c, Bool(error)) EXCEPT
            !.inner = <<Tag(p.kind), Tag(p.asked)>>,
            !.pre = IF keep THEN <<Num(i)>> ELSE <<>>,
            !.again = /\ last.op = "callback" /\ last.pre = <<Num(i)>>
                      /\ last.v = Bool(FALSE)]

\* mutant: the pass goes over the group the chart had when the call was made
CommitDoneOf_GroupAtCall(keeps) ==
    \E i \in 1..Len(pendingCommits), error \in BOOLEAN, keep \in keeps :
        LET p == pendingCommits[i]
        IN /\ pendingCommits' = IF keep THEN pendingCommits ELSE RemoveAt(pendingCommits, i)
           /\ last' = Invoked(i, error, keep)
           /\ IF error
              THEN /\ log' = <<Entry("console.log", p.c, None, <<>>)>>
                   /\ UNCHANGED <<filterVars, geometryVars, lifeVars, anchorVars,
                                  commitHandler, pendingTriggers>>
              ELSE /\ IF p.kind = "renderAll"
                      THEN renderAll(p.asked, <<>>)
                      ELSE redrawAll(p.asked, <<>>)
                   /\ FanOutFrame

\* mutant: the completion callback does not look at its error argument
CommitDoneOf_IgnoreError(keeps) ==
    \E i \in 1..Len(pendingCommits), error \in BOOLEAN, keep \in keeps :
        LET p == pendingCommits[i]
        IN /\ pendingCommits' = IF keep THEN pendingCommits ELSE RemoveAt(pendingCommits, i)
           /\ last' = Invoked(i, error, keep)
           /\ IF p.kind = "renderAll"
              THEN renderAll(chartGroup[p.c], <<>>)
              ELSE redrawAll(chartGroup[p.c], <<>>)
           /\ FanOutFrame

\* the commit handler invokes a completion callback it was given, with or
\* without an error; keeps: whether it may keep the callback to invoke it
\* again
CommitDoneOf(keeps) ==
    \E i \in 1..Len(pendingCommits), error \in BOOLEAN, keep \in keeps :
        LET p == pendingCommits[i]
        IN /\ pendingCommits' = IF keep THEN pendingCommits ELSE RemoveAt(pendingCommits, i)
           /\ last' = Invoked(i, error, keep)
           /\ IF error
              THEN /\ log' = <<Entry("console.log", p.c, None, <<>>)>>
                   /\ UNCHANGED <<filterVars, geometryVars, lifeVars, anchorVars,
                                  commitHandler, pendingTriggers>>
              ELSE /\ IF p.kind = "renderAll"
                      THEN renderAll(chartGroup[p.c], <<>>)
                      ELSE redrawAll(chartGroup[p.c], <<>>)
                   /\ FanOutFrame

\* a commit handler that may invoke a callback any number of times
CommitDone == CommitDoneOf(BOOLEAN)

(***************************************************************************)
(* onClick(datum), lines 1194-1200, with events.trigger (core/events).       *)
(***************************************************************************)
\* a datum {key, value} of the group, and the data clicked on
Datum(k, x) == Val("datum", k, x)
ClickData == {Datum(1, 2), Datum(2, 1)}
\* the default key accessor pluck('key'), line 91
keyAccessor(d) == Num(d.a)

\* what the closure leaves alone besides the filter and the redraw
ClickFrame ==
    UNCHANGED <<dimension, hasFilterHandler, controlsUseVisibility, widthCalc,
                heightCalc, minWidth, minHeight, useViewBoxResizing, group,
                mandatoryAttributesList, legend, transitionDuration, svg, listeners,
                anchorVars, commitHandler, pendingTriggers>>

\* mutant: the closure redraws the group and then toggles the filter
ClickClosure_RedrawFirst(c, key, pre) ==
    \E b \in {FilterBody(c, filters[c], key, <<>>)} :
        /\ Len(b.filters) <= MaxFilters
        /\ filters' = [filters EXCEPT ![c] = b.filters]
        /\ dsLast' = [dsLast EXCEPT ![c] =
                         IF b.calls = <<>> THEN @ ELSE b.calls[Len(b.calls)]]
        /\ controls' = [controls EXCEPT ![c] = b.controls]
        /\ controlStyle' = [controlStyle EXCEPT ![c] = b.style]
        /\ ~commitHandler[c]
        /\ redrawAllAfter(chartGroup[c], pre \o <<Ev("redrawGroup", c)>>,
                          <<Entry("filter", c, key, <<>>)>> \o b.log)
        /\ UNCHANGED pendingCommits

\* the closure of onClick: this.filter(filter); this.redrawGroup(); pre: the
\* steps taken before it
ClickClosure(c, key, pre) ==
    \E b \in {FilterBody(c, filters[c], key, <<>>)} :
        /\ Len(b.filters) <= MaxFilters
        /\ filters' = [filters EXCEPT ![c] = b.filters]
        /\ dsLast' = [dsLast EXCEPT ![c] =
                         IF b.calls = <<>> THEN @ ELSE b.calls[Len(b.calls)]]
        /\ controls' = [controls EXCEPT ![c] = b.controls]
        /\ controlStyle' = [controlStyle EXCEPT ![c] = b.style]
        /\ LET filtered == pre \o <<Entry("filter", c, key, <<>>)>> \o b.log
           IN IF b.threw
              THEN \* the exception of filter() leaves the closure
                   /\ log' = filtered
                   /\ UNCHANGED <<svgAttr, width, height, widthCalls, heightCalls,
                                  pendingTransitions, pendingCommits>>
              ELSE IF commitHandler[c]
              THEN /\ Len(pendingCommits) < MaxPending
                   /\ pendingCommits' =
                         Append(pendingCommits,
                                [c |-> c, kind |-> "redrawAll", asked |-> chartGroup[c]])
                   /\ log' = filtered \o <<Ev("redrawGroup", c),
                                           Entry("commitHandler", c, Bool(FALSE), <<>>),
                                           Ev("return this", c)>>
                   /\ UNCHANGED <<svgAttr, width, height, widthCalls, heightCalls,
                                  pendingTransitions>>
              ELSE /\ redrawAllAfter(chartGroup[c], filtered \o <<Ev("redrawGroup", c)>>,
                                     <<Ev("return this", c)>>)
                   /\ UNCHANGED pendingCommits

\* chart.onClick(datum): events.trigger runs the closure at once or keeps it
\* to run it later
OnClick(c) ==
    \E datum \in ClickData, now \in BOOLEAN :
    \E pre \in {<<Entry("keyAccessor", c, datum, <<>>),
                 Entry("events.trigger", c, keyAccessor(datum), <<>>)>>} :
        /\ last' = [OpWith("onClick", c, datum) EXCEPT !.pre = filters[c]]
        /\ IF now
           THEN ClickClosure(c, keyAccessor(datum), pre) /\ ClickFrame
           ELSE /\ Len(pendingTriggers) < MaxPending
                /\ pendingTriggers' =
                      Append(pendingTriggers, [c |-> c, filter |-> keyAccessor(datum)])
                /\ log' = pre
                /\ UNCHANGED <<filterVars, geometryVars, lifeVars, anchorVars,
                               commitHandler, pendingCommits>>

\* events.trigger runs the closure it kept first
TriggerRun ==
    /\ pendingTriggers # <<>>
    /\ LET t == Head(pendingTriggers)
       IN /\ last' = [OpWith("trigger", t.c, t.filter) EXCEPT !.pre = filters[t.c]]
          /\ ClickClosure(t.c, t.filter, <<>>)
          /\ pendingTriggers' = Tail(pendingTriggers)
          /\ UNCHANGED <<dimension, hasFilterHandler, controlsUseVisibility, widthCalc,
                         heightCalc, minWidth, minHeight, useViewBoxResizing, group,
                         mandatoryAttributesList, legend, transitionDuration, svg,
                         listeners, anchorVars, commitHandler>>

(***************************************************************************)
(* _computeOrderedGroups(data), lines 414-417, with the default ordering    *)
(* accessor pluck('key'), line 95.                                           *)
(***************************************************************************)
\* the data {key, value} the arrays offered are made of, with equal and
\* unequal keys
OrderedData == {Datum(k, x) : k \in 1..MaxNum, x \in 1..MaxData}

\* this._ordering(d)
ordering(d) == d.a
\* the comparator (a, b) => this._ordering(a) - this._ordering(b)
Compare(a, b) == ordering(a) - ordering(b)

\* x put into the sorted array s: behind every element that does not compare
\* greater than x
RECURSIVE InsertBy(_, _)
InsertBy(s, x) ==
    IF s = <<>> THEN <<x>>
    ELSE IF Compare(s[Len(s)], x) > 0
         THEN Append(InsertBy(SubSeq(s, 1, Len(s) - 1), x), s[Len(s)])
         ELSE Append(s, x)

\* Array.prototype.sort with the comparator: a stable sort
RECURSIVE SortBy(_)
SortBy(s) ==
    IF s = <<>> THEN <<>>
    ELSE InsertBy(SortBy(SubSeq(s, 1, Len(s) - 1)), s[Len(s)])

\* mutant: the array of the caller is sorted in place
_computeOrderedGroups_InPlace(data) ==
    [result |-> SortBy(data), data |-> SortBy(data)]

\* _computeOrderedGroups(data): the array returned and the array of the
\* caller after the call
_computeOrderedGroups(data) ==
    [result |-> SortBy(data), data |-> data]

\* chart._computeOrderedGroups(data), called with the empty array or with
\* the array of the call before and one more datum; last.pre: the array of
\* the caller before the call, last.inner: that array after the call
ComputeOrderedGroups(c) ==
    \E data \in {<<>>} \cup {Append(last.pre, d) : d \in OrderedData} :
    \E r \in {_computeOrderedGroups(data)} :
        /\ Len(data) <= MaxData
        /\ log' = <<Entry("return", c, None, r.result)>>
        /\ last' = [OpWith("_computeOrderedGroups", c, None) EXCEPT
                        !.pre = data, !.inner = r.data]
        /\ UNCHANGED <<filterVars, geometryVars, lifeVars, anchorVars, commitVars>>

\* the filter engine driven with single values
Next ==
    \/ Filter(Subject)
    \/ FilterAll(Subject)
    \/ ReplaceFilter(Subject, SingleArgs)
    \/ SetDimension(Subject)

Spec == Init /\ [][Next]_vars

\* filter(value) called with single values, null and arrays of values, with
\* and without a data source
NextFiltered ==
    \/ Filter(Subject)
    \/ FilterNested(Subject)
    \/ FilterAll(Subject)
    \/ SetDimension(Subject)

SpecFiltered == Init /\ [][NextFiltered]_vars

\* hasFilter asked of the lists filter(value) builds with the default and
\* with another has-handler
NextHas ==
    \/ Filter(Subject)
    \/ FilterAll(Subject)
    \/ SetHasFilterHandler(Subject)
    \/ HasFilter(Subject)

SpecHas == Init /\ [][NextHas]_vars

\* the values offered to filter(v) on a chart whose data source tests data
TestedValues == {Num(1), Num(2), Ranged(1, 2), TwoD(1, 2)}

\* filter(value) on a chart with a data source, which tests data with the
\* function it was handed
NextPredicate ==
    \/ FilterOf(Subject, TestedValues)
    \/ FilterAll(Subject)
    \/ SetDimension(Subject)
    \/ DimensionTest(Subject)

SpecPredicate == Init /\ [][NextPredicate]_vars

\* every way filter() and replaceFilter() change the list, default handlers
\* values of which some match each other across types: 1 and "1", the two
\* tagged arrays [1, 2]
AlikeValues == {Num(1), Str(1), NaN, Ranged(1, 2), TwoD(1, 2)}
AlikeNested == SeqsUpTo({Num(1), Str(1), NaN}, 2)

NextUnique ==
    \/ FilterOf(Subject, AlikeValues)
    \/ FilterNestedOf(Subject, AlikeNested)
    \/ FilterAll(Subject)
    \/ ReplaceFilter(Subject, {<<v, <<>>>> : v \in AlikeValues})

SpecUnique == Init /\ [][NextUnique]_vars

\* the filter engine driven with arrays of values to toggle together
NextNested ==
    \/ FilterNested(Subject)
    \/ FilterAll(Subject)
    \/ ReplaceFilter(Subject, SingleArgs)

SpecNested == Init /\ [][NextNested]_vars

\* the render / redraw lifecycle of one chart
NextLife ==
    \/ SetDimension(Subject)
    \/ SetGroup(Subject)
    \/ SetMandatoryAttributes(Subject)
    \/ SetLegend(Subject)
    \/ SetTransitionDuration(Subject)
    \/ Anchor(Subject, SelectorParents, {DEFAULT_CHART_GROUP})
    \/ ResetSvg(Subject)
    \/ Render(Subject)
    \/ Redraw(Subject)
    \/ TransitionEnd

SpecLife == Init /\ [][NextLife]_vars

\* the transitions of one chart; every transition that was started comes to
\* its end
NextTransitions ==
    \/ SetMandatoryAttributes(Subject)
    \/ SetTransitionDuration(Subject)
    \/ Anchor(Subject, SelectorParents, {DEFAULT_CHART_GROUP})
    \/ ResetSvg(Subject)
    \/ Render(Subject)
    \/ Redraw(Subject)
    \/ TransitionEnd

SpecTransitions == Init /\ [][NextTransitions]_vars /\ WF_vars(TransitionEnd)

\* the cached sizes of one chart: set, read, cleared by render() and read by
\* redraw() and resetSvg()
NextGeometry ==
    \/ Anchor(Subject, SelectorParents, {DEFAULT_CHART_GROUP})
    \/ SetWidth(Subject)
    \/ SetHeight(Subject)
    \/ GetWidth(Subject)
    \/ GetHeight(Subject)
    \/ ResetSvg(Subject)
    \/ Render(Subject)
    \/ Redraw(Subject)
    \/ TransitionEnd

SpecGeometry == Init /\ [][NextGeometry]_vars

\* redraws of one chart with and without its mandatory attributes, whose
\* width is set and read
NextRedrawn ==
    \/ Anchor(Subject, SelectorParents, {DEFAULT_CHART_GROUP})
    \/ SetDimensionOf(Subject, {"undefined", "crossfilter"})
    \/ SetGroup(Subject)
    \/ SetTransitionDuration(Subject)
    \/ ResetSvg(Subject)
    \/ SetWidth(Subject)
    \/ GetWidth(Subject)
    \/ Redraw(Subject)
    \/ TransitionEnd

SpecRedrawn == Init /\ [][NextRedrawn]_vars

\* the sizes of one chart whose minimums change
NextMinimum ==
    \/ Anchor(Subject, SelectorParents, {DEFAULT_CHART_GROUP})
    \/ SetWidth(Subject)
    \/ SetHeight(Subject)
    \/ SetMinWidth(Subject)
    \/ SetMinHeight(Subject)
    \/ GetWidth(Subject)
    \/ GetHeight(Subject)
    \/ Render(Subject)

SpecMinimum == Init /\ [][NextMinimum]_vars

\* the sizing of the svg of one chart, by its attributes or by its viewBox
NextSizing ==
    \/ Anchor(Subject, SelectorParents, {DEFAULT_CHART_GROUP})
    \/ SetWidth(Subject)
    \/ SetUseViewBoxResizing(Subject)
    \/ ResetSvg(Subject)
    \/ Redraw(Subject)

SpecSizing == Init /\ [][NextSizing]_vars

\* the values a specification that is not about the filter engine offers
\* to filter(v): a number and a range
FewValues == {Num(1), Ranged(1, 2)}

\* the events a throwing or returning listener is registered for
SomeEvents == {"preRender", "preRedraw", "filtered", "pretransition", "renderlet"}

\* render(), redraw() and filter(v) of one chart with listeners that throw
NextListeners ==
    \/ On(Subject, SomeEvents)
    \/ SetMandatoryAttributes(Subject)
    \/ Anchor(Subject, SelectorParents, {DEFAULT_CHART_GROUP})
    \/ FilterOf(Subject, FewValues)
    \/ Render(Subject)
    \/ Redraw(Subject)

SpecListeners == Init /\ [][NextListeners]_vars

\* the control elements of one filtered chart, shown and hidden by either style
NextControls ==
    \/ Anchor(Subject, SelectorParents, {DEFAULT_CHART_GROUP})
    \/ FilterOf(Subject, FewValues)
    \/ FilterAll(Subject)
    \/ SetHasFilterHandler(Subject)
    \/ SetControlsUseVisibility(Subject)
    \/ On(Subject, {"filtered"})

SpecControls == Init /\ [][NextControls]_vars

\* one filtered chart whose dimension may throw when it is filtered
NextThrowing ==
    \/ Anchor(Subject, SelectorParents, {DEFAULT_CHART_GROUP})
    \/ SetDimensionOf(Subject, {"crossfilter", "throwing"})
    \/ FilterOf(Subject, FewValues)
    \/ FilterAll(Subject)

SpecThrowing == Init /\ [][NextThrowing]_vars

\* the one other chart that shares groups with the subject under
\* SpecRegistry and SpecGroup
Partner == CHOOSE c \in Charts \ {Subject} : \A d \in Charts \ {Subject} : c <= d

\* one chart anchored to selectors and to other charts and moved between
\* groups, one other chart anchored to selectors
NextRegistry ==
    \/ Anchor(Subject, AllParents(Subject), GroupIds)
    \/ Anchor(Partner, SelectorParents, GroupIds)
    \/ ChartGroup(Subject)

SpecRegistry == Init /\ [][NextRegistry]_vars

\* the group-wide passes of one chart, with and without a commit handler,
\* over groups of at most two charts (SpecFanOut has the larger groups)
NextGroup ==
    \/ \E c \in {Subject, Partner} : Anchor(c, SelectorParents, GroupIds)
    \/ ChartGroup(Subject)
    \/ SetCommitHandler(Subject)
    \/ RedrawGroup(Subject)
    \/ RenderGroup(Subject)
    \/ CommitDoneOf({FALSE})

SpecGroup == Init /\ [][NextGroup]_vars

\* options(opts) on one chart whose width is read
NextOptions ==
    \/ Options(Subject)
    \/ Anchor(Subject, SelectorParents, {DEFAULT_CHART_GROUP})
    \/ GetWidth(Subject)

SpecOptions == Init /\ [][NextOptions]_vars

\* the ordering of data
NextOrdered == ComputeOrderedGroups(Subject)

SpecOrdered == Init /\ [][NextOrdered]_vars

\* clicks on one chart, with and without a commit handler
NextClick ==
    \/ Anchor(Subject, SelectorParents, {DEFAULT_CHART_GROUP})
    \/ SetCommitHandler(Subject)
    \/ OnClick(Subject)
    \/ TriggerRun
    \/ CommitDoneOf({FALSE})

SpecClick == Init /\ [][NextClick]_vars

\* one filtered chart whose group-wide passes go through a commit handler
\* that completes them late or never
NextCommit ==
    \/ Anchor(Subject, SelectorParents, {DEFAULT_CHART_GROUP})
    \/ FilterOf(Subject, FewValues)
    \/ SetCommitHandler(Subject)
    \/ RedrawGroup(Subject)
    \/ RenderGroup(Subject)
    \/ CommitDone

SpecCommit == Init /\ [][NextCommit]_vars

\* the group-wide passes of one chart without a commit handler: the charts
\* are registered in one group in any order, and their render() passes or
\* fails its check of the mandatory attributes
NextFanOut ==
    \/ \E c \in Charts : Anchor(c, SelectorParents, {"g1"})
    \/ \E c \in Charts : SetMandatoryAttributes(c)
    \/ RedrawGroup(Subject)
    \/ RenderGroup(Subject)

SpecFanOut == Init /\ [][NextFanOut]_vars

(***************************************************************************)
(* Properties of the filter engine.                                         *)
(***************************************************************************)
\* the equal-or-within test of the default handlers
Matches(x, y) == LessEq(x, y) /\ GreaterEq(x, y)
MatchingIn(fs, v) == {i \in 1..Len(fs) : Matches(v, fs[i])}

\* the step just taken is the second of two successive filter(v) calls on
\* one chart, v neither null nor an array whose first element is an array
SecondToggle ==
    /\ last'.op = "filter" /\ last'.again
    /\ last'.v \in Values

\* C1 as stated: two successive filter(v) calls leave the filter list equal,
\* as an ordered sequence, to the list L before the first call, whether or
\* not v was present in L.
C1_ToggleTwiceRestoresList ==
    [][SecondToggle => filters'[last'.c] = last.pre]_vars

\* C1 amended: for v matching itself, two successive filter(v) calls restore
\* L as an ordered sequence when v matches no element of L; when v matches
\* exactly one element of L they remove that element and append v at the end.
C1_ToggleTwice ==
    [][SecondToggle /\ Matches(last'.v, last'.v) =>
        LET L == last.pre
            v == last'.v
            hit == MatchingIn(L, v)
        IN /\ hit = {} => filters'[last'.c] = L
           /\ Cardinality(hit) = 1 =>
                filters'[last'.c] = Append(RemoveAt(L, CHOOSE i \in hit : TRUE), v)]_vars

\* C1 witness: filter(v) was called twice in a row on a non-empty list that
\* did not contain v, and the list is as it was (v absent again).
C1_Witness ==
    /\ last.op = "filter" /\ last.again /\ last.v \in Values
    /\ Matches(last.v, last.v)
    /\ filters[last.c] # <<>>
    /\ MatchingIn(filters[last.c], last.v) = {}
    /\ last.pre = Append(filters[last.c], last.v)

\* C2: filter(null) / filterAll() leaves the filter list empty and
\* hasFilter() false, whatever the list was.
C2_ResetEmpties ==
    (last.op = "filter" /\ last.v = Null) =>
        /\ filters[last.c] = <<>>
        /\ ~_defaultHasFilterHandler(filters[last.c], None)

\* C2 witness: filter(null) was called on a list of two or more filters.
C2_Witness ==
    /\ last.op = "filter" /\ last.v = Null
    /\ Len(last.pre) >= 2
    /\ filters[last.c] = <<>>

\* the last call was filter([[a, b, c]]) with none of a, b, c contained in
\* the list L it was called on
NestedOfThreeAbsent ==
    /\ last.op = "filter" /\ last.v = Nested /\ Len(last.inner) = 3
    /\ \A i \in 1..3 : ~_defaultHasFilterHandler(last.pre, last.inner[i])

C4_ReplaceIsResetThenFilter ==
    last.op = "replaceFilter" =>
        filters[last.c] =
            FilterBody(last.c, FilterBody(last.c, last.pre, Null, <<>>).filters,
                       last.v, last.inner).filters

\* C4 witness: replaceFilter(v) was called on a non-empty list that did not
\* contain v and left exactly v.
C4_Witness ==
    /\ last.op = "replaceFilter" /\ last.v \in Values
    /\ last.pre # <<>>
    /\ MatchingIn(last.pre, last.v) = {}
    /\ filters[last.c] = <<last.v>>

\* the data-source calls the last API call made
DsOps == SelectSeq(log, LAMBDA e :
            e.ev \in {"filter", "filterExact", "filterRange", "filterFunction"})

\* C5: one replaceFilter(v) on a chart with a bound data source invokes the
\* filter-apply handler exactly once and makes exactly one data-source call.
C5_ReplaceAppliesOnce ==
    (last.op = "replaceFilter" /\ dimension[last.c] = "crossfilter") =>
        /\ Count("filterHandler") = 1
        /\ Len(DsOps) = 1

\* C5 witness: replaceFilter(v) ran on a chart with a data source and a
\* non-empty list, so that a reset and an add both took place.
C5_Witness ==
    /\ last.op = "replaceFilter" /\ dimension[last.c] = "crossfilter"
    /\ last.pre # <<>> /\ filters[last.c] # <<>>
    /\ Len(DsOps) = 1

\* C6: per call the default filter-apply handler makes exactly one
\* data-source call chosen by the shape of the list it is given (clear for
\* the empty list, exact match for one untagged element, range for one
\* element tagged ranged, the predicate function otherwise) and returns
\* that list.
C6_ApplyPolicy ==
    Count("filterHandler") > 0 =>
        LET given == Events("filterHandler")[1].fs
            ds == DsOps
        IN /\ Count("filterHandler") = 1
           /\ Len(ds) = 1
           /\ Len(given) = 0 => ds[1].ev = "filter" /\ ds[1].v = Null
           /\ (Len(given) = 1 /\ given[1].kind \in {"num", "nan", "str"}) =>
                ds[1].ev = "filterExact" /\ ds[1].v = given[1]
           /\ (Len(given) = 1 /\ given[1].kind = "ranged") =>
                ds[1].ev = "filterRange" /\ ds[1].v = given[1]
           /\ (Len(given) > 1 \/ (Len(given) = 1 /\ given[1].kind = "twoD")) =>
                ds[1].ev = "filterFunction" /\ ds[1].fs = given
           /\ filters[last.c] = given
           /\ dsLast[last.c] = DsCall(ds[1].ev, ds[1].v, ds[1].fs)

\* C6 witness: the handler was given a single tagged element that is not
\* ranged and handed the data source the predicate function.
C6_Witness ==
    /\ Count("filterHandler") = 1
    /\ Events("filterHandler")[1].fs = <<TwoD(1, 2)>>
    /\ Len(DsOps) = 1 /\ DsOps[1].ev = "filterFunction"

\* C17: hasFilter(f) returns what the installed has-handler returns for the
\* chart's filter list and f; with the default handler hasFilter() and
\* hasFilter(null) are true iff the list is not empty, and hasFilter(f) is true
\* iff f <= e and f >= e for some element e of the list.
C17_HasFilter ==
    last.op = "hasFilter" =>
        LET fs == filters[last.c]
            f == last.v
            result == last.inner[1] = Bool(TRUE)
        IN /\ log = <<Entry("hasFilterHandler", last.c, f, fs)>>
           /\ last.inner \in {<<Bool(TRUE)>>, <<Bool(FALSE)>>}
           /\ hasFilterHandler[last.c] = "never" => ~result
           /\ hasFilterHandler[last.c] = "default" =>
                IF f \in {Null, None} THEN result <=> fs # <<>>
                ELSE result <=> \E i \in 1..Len(fs) : Matches(f, fs[i])

\* C17 witness: with the default handler, hasFilter("1") is true of a list
\* that holds the number 1 behind another element.
C17_Witness ==
    /\ last.op = "hasFilter" /\ last.v = Str(1)
    /\ hasFilterHandler[last.c] = "default"
    /\ Len(filters[last.c]) = 2 /\ filters[last.c][2] = Num(1)
    /\ last.inner = <<Bool(TRUE)>>

\* where the step named name is in the log
Pos(name) == CHOOSE i \in 1..Len(log) : log[i].ev = name

\* C16: a filter(value) call with a defined argument fires filtered exactly
\* once, with the argument it was given, after the filters were applied to the
\* data source and the result was stored as the chart's filter list, and
\* before the controls are turned on or off.
C16_FilteredOnceAfterStore ==
    last.op = "filter" =>
        /\ Count("filtered") = 1
        /\ Events("filtered")[1].v = last.v
        /\ Events("filtered")[1].fs = last.inner
        /\ Count("applyFilters") = 1 /\ Count("_filters") = 1
        /\ Count("turnOnControls") + Count("turnOffControls") = 1
        /\ Pos("applyFilters") < Pos("_filters")
        /\ \A i \in 1..Len(log) :
              log[i].ev \in {"filterHandler", "filter", "filterExact", "filterRange",
                             "filterFunction"}
                 => Pos("applyFilters") < i /\ i < Pos("_filters")
        /\ log[Pos("_filters")].fs = filters[last.c]
        /\ Pos("filtered") = Pos("_filters") + 1
        /\ Len(log) = Pos("filtered") + 1
        /\ log[Len(log)].ev \in {"turnOnControls", "turnOffControls"}

\* C16 witness: filter([[...]]) on a chart with a data source fired filtered
\* once, with the array, after the handler had set a filter function for the
\* two filters that resulted.
C16_Witness ==
    /\ last.op = "filter" /\ last.v = Nested /\ Len(last.inner) = 3
    /\ dimension[last.c] = "crossfilter"
    /\ Count("filterFunction") = 1
    /\ Len(filters[last.c]) = 2
    /\ Count("filtered") = 1 /\ Events("filtered")[1].fs = last.inner

(***************************************************************************)
(* Properties of the render lifecycle.                                      *)
(***************************************************************************)
\* the mandatory attributes of chart c that yield a falsy value
Missing(c) ==
    {a \in {mandatoryAttributesList[c][i] : i \in 1..Len(mandatoryAttributesList[c])} :
        ~AttributeSet(c, a)}

\* C7: render() on a chart with a missing mandatory attribute throws
\* InvalidState naming a missing attribute before the draw hook runs: the
\* call runs no draw hook, renders no legend, fires no pretransition,
\* renderlet or postRender, and starts no transition that would fire them.
C7_RenderFailsBeforeDraw ==
    [][(last'.op = "render" /\ Missing(last'.c) # {}) =>
        /\ Count("InvalidStateException")' = 1
        /\ Events("InvalidStateException")'[1].v \in {Tag(a) : a \in Missing(last'.c)}
        /\ log'[Len(log')].ev = "InvalidStateException"
        /\ Count("_doRender")' = 0
        /\ Count("legend.render")' = 0
        /\ Count("pretransition")' = 0
        /\ Count("renderlet")' = 0
        /\ Count("postRender")' = 0
        /\ pendingTransitions' = pendingTransitions]_vars

\* C7 witness: render() failed for the unset dimension on a chart that has a
\* group, a legend, a svg and a transition duration.
C7_Witness ==
    /\ last.op = "render"
    /\ dimension[last.c] = "undefined" /\ group[last.c]
    /\ legend[last.c] /\ svg[last.c] /\ transitionDuration[last.c] > 0
    /\ Count("InvalidStateException") = 1
    /\ Events("InvalidStateException")[1].v = Tag("dimension")
    /\ Count("_doRender") = 0

(***************************************************************************)
(* Properties of the chart groups.                                          *)
(***************************************************************************)
\* the number of render() / redraw() calls a group-wide pass made
Passes == Count("renderAll") + Count("redrawAll")
MemberCalls == Count("render") + Count("redraw")

\* C8: with a commit handler, redrawGroup() / renderGroup() make no
\* group-wide pass themselves; a completion callback with an error makes
\* none; a completion callback without error makes exactly one pass, of the
\* kind asked for, over the chart's group.
C8_CommitGate ==
    /\ (last.op \in {"redrawGroup", "renderGroup"} /\ Count("commitHandler") > 0) =>
            Passes = 0 /\ MemberCalls = 0
    /\ (last.op = "callback" /\ last.v = Bool(TRUE)) =>
            Passes = 0 /\ MemberCalls = 0
    /\ (last.op = "callback" /\ last.v = Bool(FALSE)) =>
            /\ Passes = 1
            /\ Count(last.inner[1].kind) = 1
            /\ log[1] = Entry(last.inner[1].kind, 0, Tag(chartGroup[last.c]), <<>>)
            /\ last.inner[1].kind = "redrawAll" =>
                 /\ Count("render") = 0
                 /\ \A c \in Charts :
                      Len(SelectSeq(log, LAMBDA e : e.ev = "redraw" /\ e.c = c))
                        = IF c \in Members(chartMap, chartGroup[last.c]) THEN 1 ELSE 0
            /\ last.inner[1].kind = "renderAll" =>
                 /\ Count("redraw") = 0
                 /\ \A c \in Charts :
                      Len(SelectSeq(log, LAMBDA e : e.ev = "render" /\ e.c = c))
                        <= IF c \in Members(chartMap, chartGroup[last.c]) THEN 1 ELSE 0

\* C8 witness: a completion callback without error redrew a group of two
\* charts once.
C8_Witness ==
    /\ last.op = "callback" /\ last.v = Bool(FALSE)
    /\ commitHandler[last.c]
    /\ Count("redrawAll") = 1
    /\ Count("redraw") = 2

\* C9: the commit handler is called with true by renderGroup() and with
\* false by redrawGroup().
C9_CommitFlag ==
    Count("commitHandler") > 0 =>
        /\ last.op = "renderGroup" => Events("commitHandler")[1].v = Bool(TRUE)
        /\ last.op = "redrawGroup" => Events("commitHandler")[1].v = Bool(FALSE)

\* C10: a root chart that was anchored or given a group is a member of
\* exactly one group of the registry, its current chartGroup().
C10_ExactlyOneGroup ==
    \A c \in Charts :
        isChild[c] = "false" => GroupsOf(chartMap, c) = {chartGroup[c]}

\* C11: a chart whose child flag is set (its latest anchor target was another
\* chart) is a member of no group of the registry.
C11_ChildNeverRegistered ==
    \A c \in Charts :
        isChild[c] = "true" => GroupsOf(chartMap, c) = {}

\* C18: anchor(parent, group) with a falsy parent throws BadArgument and
\* leaves the chart's anchor, root, child flag and recorded group and the
\* members of every group as they were.
C18_FalsyParentChangesNothing ==
    [][(last'.op = "anchor" /\ last'.inner[1].kind = "falsy") =>
         /\ log' = <<Entry("BadArgumentException", last'.c, None, <<>>)>>
         /\ anchor' = anchor /\ root' = root /\ isChild' = isChild
         /\ chartGroup' = chartGroup /\ chartMap' = chartMap]_vars

\* C18 witness: anchor(null, g) threw on a root chart that is anchored and
\* registered in another group than g.
C18_Witness ==
    /\ last.op = "anchor" /\ last.inner[1].kind = "falsy"
    /\ Count("BadArgumentException") = 1
    /\ isChild[last.c] = "false" /\ anchor[last.c] # "undefined"
    /\ last.v # Tag(chartGroup[last.c])
    /\ last.c \in Members(chartMap, chartGroup[last.c])

\* the charts render() / redraw() was called on by the last call, in order
MemberSeq(name) == [i \in 1..Count(name) |-> Events(name)[i].c]
IsPrefix(s1, s2) == Len(s1) <= Len(s2) /\ s1 = SubSeq(s2, 1, Len(s1))
\* the members of the group of the chart the last call was made on
LastGroup == chartMap[chartGroup[last.c]]

Terminal(op) == IF op = "render" THEN "postRender" ELSE "postRedraw"
\* the step is a render() / redraw() call on a chart that starts a transition
StartsTransition ==
    /\ last'.op \in {"render", "redraw"}
    /\ transitionDuration[last'.c] > 0 /\ svg[last'.c]
    /\ Count("InvalidStateException")' = 0

\* what a step does to the pending end callbacks
PendingKept ==
    /\ (StartsTransition /\ pendingTransitions # <<>>) =>
          pendingTransitions' =
              Append(pendingTransitions,
                     [c |-> last'.c, event |-> Terminal(last'.op)])
    /\ last'.op = "transitionEnd" =>
          /\ pendingTransitions # <<>>
          /\ pendingTransitions' = Tail(pendingTransitions)
          /\ log' = <<Ev("renderlet", Head(pendingTransitions).c),
                      Ev(Head(pendingTransitions).event, Head(pendingTransitions).c)>>
    /\ last'.op \notin {"render", "redraw", "transitionEnd"} =>
          pendingTransitions' = pendingTransitions

CountIn(lg, name) == Len(SelectSeq(lg, LAMBDA e : e.ev = name))

\* what a render() / redraw() call fires and starts, and what the end of a
\* transition fires
ActivationSteps ==
    /\ (last'.op \in {"render", "redraw"} /\ Count("InvalidStateException")' = 0) =>
         (LET c == last'.c
              term == Terminal(last'.op)
          IN /\ Count("pretransition")' = 1
             /\ IF transitionDuration[c] > 0 /\ svg[c]
                THEN /\ log'[Len(log')] = Ev("pretransition", c)
                     /\ Count("renderlet")' = 0 /\ CountIn(log', term) = 0
                     /\ pendingTransitions' =
                            Append(pendingTransitions, [c |-> c, event |-> term])
                ELSE /\ SubSeq(log', Len(log') - 2, Len(log')) =
                            <<Ev("pretransition", c), Ev("renderlet", c), Ev(term, c)>>
                     /\ Count("renderlet")' = 1 /\ CountIn(log', term) = 1
                     /\ pendingTransitions' = pendingTransitions)
    /\ last'.op = "transitionEnd" =>
          /\ pendingTransitions = <<Head(pendingTransitions)>> \o pendingTransitions'
          /\ log' = <<Ev("renderlet", last'.c),
                      Ev(Head(pendingTransitions).event, last'.c)>>
          /\ last'.c = Head(pendingTransitions).c

\* C15: every render() / redraw() fires pretransition before it returns; with
\* a transition duration > 0 and a svg, renderlet and the terminal event do
\* not fire before the call returns and fire once, renderlet first, when the
\* transition ends; otherwise both fire before the call returns, renderlet
\* first.
C15_EveryCallActivates ==
    [][/\ last'.op \in {"render", "redraw"} => Count("pretransition")' = 1
       /\ ActivationSteps]_vars

\* C15 amended: the same for every redraw() and every render() whose
\* mandatory attributes are all set.
C15_CompletedCallActivates ==
    [][ActivationSteps]_vars

\* C15 witness: the end of a transition fired renderlet and postRedraw for a
\* redraw() that had fired pretransition only.
C15_Witness ==
    /\ last.op = "transitionEnd"
    /\ log = <<Ev("renderlet", last.c), Ev("postRedraw", last.c)>>
    /\ svg[last.c] /\ transitionDuration[last.c] > 0

ReturnsNumber(calc) == calc.kind = "default" \/ IsNumber(calc.n)

ThrewAt(lg, c, i, e) ==
    /\ i <= Len(lg) /\ lg[i].ev = e /\ e \in listeners[c]
    /\ Len(lg) = i + 1
    /\ lg[i + 1] = Entry("ListenerError", c, Tag(e), <<>>)

\* what a call that a listener interrupted leaves alone
InterruptedCall ==
    (last'.op \in {"render", "redraw", "filter"}) =>
        /\ \A i \in 1..Len(log') :
              log'[i].ev \in listeners[last'.c] =>
                  ThrewAt(log', last'.c, i, log'[i].ev)
        /\ (last'.op = "render" /\ "preRender" \in listeners[last'.c]) =>
              /\ ThrewAt(log', last'.c, 2, "preRender")
              /\ pendingTransitions' = pendingTransitions
        /\ (last'.op = "redraw" /\ "preRedraw" \in listeners[last'.c]) =>
              /\ \E i \in 1..Len(log') : ThrewAt(log', last'.c, i, "preRedraw")
              /\ CountIn(log', "_doRedraw") = 0
        /\ (last'.op = "filter" /\ "filtered" \in listeners[last'.c]) =>
              /\ \E i \in 1..Len(log') : ThrewAt(log', last'.c, i, "filtered")
              /\ CountIn(log', "turnOnControls") + CountIn(log', "turnOffControls") = 0
              /\ controls' = controls /\ controlStyle' = controlStyle

\* C21: a listener that throws during the dispatch of an event ends the
\* render(), redraw() or filter() call there with its exception: no later
\* step of the call is run (after preRender no validation, draw hook or
\* event; after filtered no show/hide of the controls).
C21_ListenerExceptionPropagates == [][InterruptedCall]_vars

\* C21 witness: filter(v) stored a non-empty list on an anchored chart whose
\* controls were off, its filtered listener threw, and the controls stayed off.
C21_Witness ==
    /\ last.op = "filter" /\ root[last.c] # "undefined"
    /\ \E i \in 1..Len(log) : ThrewAt(log, last.c, i, "filtered")
    /\ filters[last.c] # <<>> /\ controls[last.c] = "off"

(***************************************************************************)
(* Properties of a commit that is left pending.                             *)
(***************************************************************************)
\* a group-wide call on a chart with a commit handler, and the steps that
\* are taken while commits are pending
PendingCommitStep ==
    /\ (last'.op \in {"redrawGroup", "renderGroup"} /\ commitHandler[last'.c]) =>
          /\ log'[Len(log')] = Ev("return this", last'.c)
          /\ CountIn(log', "renderAll") + CountIn(log', "redrawAll") = 0
          /\ CountIn(log', "render") + CountIn(log', "redraw") = 0
          /\ pendingCommits' = Append(pendingCommits,
                [c |-> last'.c,
                 kind |-> IF last'.op = "redrawGroup" THEN "redrawAll" ELSE "renderAll",
                 asked |-> chartGroup[last'.c]])
          /\ UNCHANGED <<filterVars, geometryVars, lifeVars, anchorVars, commitHandler, pendingTriggers>>
    \* a pass is made by a call on a chart without a commit handler or by a
    \* completion callback the handler invokes without an error, by nothing else
    /\ (CountIn(log', "renderAll") + CountIn(log', "redrawAll") > 0) =>
          \/ last'.op \in {"redrawGroup", "renderGroup"} /\ ~commitHandler[last'.c]
          \/ last'.op = "callback" /\ last'.v = Bool(FALSE)
    \* a pending commit goes away only when its callback is invoked
    /\ last'.op # "callback" =>
          SubSeq(pendingCommits', 1, Len(pendingCommits)) = pendingCommits

\* C22: with a commit handler redrawGroup() / renderGroup() return to the
\* caller without a pass and without changing the chart; as long as the
\* handler does not invoke the completion callback no pass is made for that
\* call, and the commit stays pending while the chart is used further.
C22_PendingCommitTolerated == [][PendingCommitStep]_vars

\* C22 witness: redrawGroup() returned on a filtered, registered chart while
\* the completion callback of an earlier group-wide call was never invoked.
C22_Witness ==
    /\ last.op = "redrawGroup" /\ commitHandler[last.c]
    /\ Len(pendingCommits) = 2
    /\ filters[last.c] # <<>>
    /\ last.c \in Members(chartMap, chartGroup[last.c])
    /\ log[Len(log)] = Ev("return this", last.c)

(***************************************************************************)
(* Properties of options(opts).                                             *)
(***************************************************************************)
\* the names an array value is spread for
SpreadNames == {"anchor", "group", "xAxisLabel", "yAxisLabel", "stack", "title",
                "point", "getColor", "overlayGeoJson"}

\* the step a key of opts is answered with
OptionStep(c, o, val) ==
    IF IsMethod(o)
    THEN Entry("call", c, Tag(o),
               IF val.array /\ o \in SpreadNames THEN val.elems
               ELSE <<IF val.array THEN Val("array", Len(val.elems), 0)
                      ELSE val.elems[1]>>)
    ELSE Entry("logger.debug", c, Tag(o), <<>>)

OptionsCall ==
    last'.op = "options" =>
        LET opts == last'.inner
        IN /\ Len(log') = Len(opts) + 1
           /\ \A i \in 1..Len(opts) :
                 log'[i] = OptionStep(last'.c, opts[i].key, opts[i].val)
           /\ log'[Len(log')] = Ev("return this", last'.c)
           /\ (\A i \in 1..Len(opts) : ~IsMethod(opts[i].key)) =>
                 UNCHANGED <<filterVars, geometryVars, lifeVars, anchorVars, commitVars>>

\* C23: options(opts) answers every key of opts in turn: a key that names a
\* method with one call of the method, given the elements of the value as
\* arguments iff the value is an array and the key is on the list, else the
\* value as one argument; any other key with a debug log entry only, without
\* an exception and without a change of the chart.
C23_Options == [][OptionsCall]_vars

\* C23 witness: options({group: [g, name], bogus: x}) called group(g, name)
\* and logged the other key.
C23_Witness ==
    /\ last.op = "options" /\ Len(last.inner) = 2
    /\ last.inner[1].key = "group" /\ last.inner[1].val.array
    /\ log[1] = Entry("call", last.c, Tag("group"), <<Num(300), Num(1)>>)
    /\ log[2] = Entry("logger.debug", last.c, Tag("bogus"), <<>>)
    /\ group[last.c]

(***************************************************************************)
(* Properties of onClick(datum).                                            *)
(***************************************************************************)
\* the positions in lg of the steps named name
Places(lg, name) == {i \in 1..Len(lg) : lg[i].ev = name}
\* the calls the closure of onClick makes itself, in order
ClosureCalls(lg) == SelectSeq(lg, LAMBDA e : e.ev \in {"filter", "redrawGroup"})
\* the steps that belong to a redraw of the group
RedrawSteps(lg) ==
    {i \in 1..Len(lg) : lg[i].ev \in {"redrawGroup", "commitHandler", "redrawAll",
                                       "redraw", "preRedraw", "_doRedraw"}}

ClickStep ==
    /\ last'.op = "onClick" =>
          /\ log'[1] = Entry("keyAccessor", last'.c, last'.v, <<>>)
          /\ log'[2] = Entry("events.trigger", last'.c, Num(last'.v.a), <<>>)
          /\ \/ Len(log') = 2 /\ pendingTriggers' # pendingTriggers
             \/ Places(log', "filter") = {3} /\ log'[3].v = Num(last'.v.a)
    /\ (Places(log', "filter") # {} /\ last'.op \in {"onClick", "trigger"}) =>
          LET c == last'.c
              key == CHOOSE k \in Nums : \E i \in Places(log', "filter") : log'[i].v = k
          IN /\ ClosureCalls(log') =
                   <<Entry("filter", c, key, <<>>), Ev("redrawGroup", c)>>
             \* the toggle of the key
             /\ filters'[c] = Toggle(c, filters[c], key)
             /\ \E i \in Places(log', "_filters") :
                   /\ log'[i].fs = filters'[c]
                   /\ \A j \in RedrawSteps(log') : i < j
             \* the redraw of the group
             /\ \/ commitHandler[c] /\ Len(pendingCommits') = Len(pendingCommits) + 1
                \/ ~commitHandler[c] /\ CountIn(log', "redrawAll") = 1

\* C24: onClick(datum) hands events.trigger one closure for the key
\* keyAccessor(datum); the closure makes exactly two calls, filter(key), a
\* toggle of the key, and then redrawGroup(), and no step of the group
\* redraw precedes the change of the filter list.
C24_ClickFiltersThenRedraws == [][ClickStep]_vars

\* C24 witness: a click on a registered chart without a commit handler added
\* the key of the datum to the filters and then redrew the chart.
C24_Witness ==
    /\ last.op = "onClick" /\ last.v = Datum(1, 2)
    /\ filters[last.c] = <<Num(1)>>
    /\ Count("redrawAll") = 1 /\ Count("_doRedraw") = 1
    /\ Pos("_filters") < Pos("redrawGroup")

(***************************************************************************)
(* Properties of _computeOrderedGroups(data).                               *)
(***************************************************************************)
\* the elements of s with the ordering value k, in their order in s
WithValue(s, k) == SelectSeq(s, LAMBDA d : ordering(d) = k)

\* C25: _computeOrderedGroups(data) returns a permutation of data that is
\* ordered non-decreasingly by the value of the ordering accessor and keeps
\* elements of equal ordering value in their input order, and the array of
\* the caller is after the call what it was before.
C25_StableOrderedCopy ==
    last.op = "_computeOrderedGroups" =>
        LET data == last.pre
            result == log[1].fs
        IN /\ Len(result) = Len(data)
           /\ \A i \in 1..Len(result) : \A j \in 1..Len(result) :
                 i < j => ordering(result[i]) <= ordering(result[j])
           /\ \A k \in 1..MaxNum : WithValue(result, k) = WithValue(data, k)
           /\ last.inner = data

\* C25 witness: an array whose first element orders last and which has two
\* different elements of equal ordering value was returned reordered.
C25_Witness ==
    /\ last.op = "_computeOrderedGroups"
    /\ last.pre = <<Datum(2, 1), Datum(1, 2), Datum(1, 1)>>
    /\ log[1].fs = <<Datum(1, 2), Datum(1, 1), Datum(2, 1)>>
    /\ last.inner = last.pre

(***************************************************************************)
(* C26                                                                      *)
(***************************************************************************)
\* some untagged element e of fs satisfies e <= d and e >= d
UntaggedContains(fs, d) ==
    \E i \in 1..Len(fs) :
        ~IsTagged(fs[i]) /\ RawLessEq(fs[i], d) /\ RawGreaterEq(fs[i], d)

\* some element's own isFiltered(d) holds
SomeIsFiltered(fs, d) ==
    \E i \in 1..Len(fs) : IsTagged(fs[i]) /\ isFiltered(fs[i], d)

\* C26: the function the default filter-apply handler hands to the data
\* source lets a datum d pass iff some element's own isFiltered(d) holds or
\* some untagged element e satisfies e <= d and e >= d: a tagged element
\* whose isFiltered(d) is false never lets d pass by the raw comparison.
C26_PredicatePassesIff ==
    last.op = "filterFunction.call" =>
        (last.inner = <<Bool(TRUE)>>
            <=> SomeIsFiltered(last.pre, last.v) \/ UntaggedContains(last.pre, last.v))
(***************************************************************************)
(* C27                                                                      *)
(***************************************************************************)
\* the element e of the list matches the filter f: by its own isFiltered when
\* it is tagged, by the equal-or-within test when it is not
MatchesByTag(e, f) ==
    IF IsTagged(e) THEN isFiltered(e, f) ELSE Matches(f, e)

TaggedHits(fs, f) == {i \in 1..Len(fs) : MatchesByTag(fs[i], f)}

\* C27: the default has-handler and remove-handler match a list element
\* against the given filter by the equal-or-within test when the element is
\* untagged and by the element's own isFiltered when it is tagged: hasFilter(f)
\* is true iff some element matches in that way, and filter(f) removes the
\* first element that matches in that way, or appends f when none does.
C27_TaggedElementsUseIsFiltered ==
    /\ (last.op = "hasFilter" /\ hasFilterHandler[last.c] = "default"
            /\ last.v \notin {Null, None})
        => (last.inner = <<Bool(TRUE)>> <=> TaggedHits(filters[last.c], last.v) # {})
    /\ (last.op = "filter" /\ hasFilterHandler[last.c] = "default"
            /\ last.v \notin {Null, None})
        => LET hits == TaggedHits(last.pre, last.v)
           IN filters[last.c] =
                IF hits = {} THEN Append(last.pre, last.v)
                ELSE RemoveAt(last.pre, CHOOSE i \in hits : \A j \in hits : i <= j)
(***************************************************************************)
(* C28                                                                      *)
(***************************************************************************)
\* the render() call that last ran completed: no exception ended it
RenderCompleted ==
    /\ last.op = "render"
    /\ Count("InvalidStateException") = 0 /\ Count("ListenerError") = 0

\* C28: a render() that completes with transition duration 0 clears the
\* cached width and height, fires preRender, checks every mandatory attribute
\* in the order of the list, runs the draw hook, renders the legend if one is
\* attached, fires pretransition, renderlet and postRender, in this order and
\* with no other step, and returns what the draw hook returned.
C28_RenderOrder ==
    (RenderCompleted /\ transitionDuration[last.c] = 0) =>
        LET c == last.c
            list == mandatoryAttributesList[c]
            n == Len(list)
            l == IF legend[c] THEN 1 ELSE 0
        IN /\ Len(log) = n + l + 6
           /\ log[1] = Ev("_width = undefined", c)
           /\ width[c] = Unset /\ height[c] = Unset
           /\ log[2] = Ev("preRender", c)
           /\ \A i \in 1..n :
                 log[2 + i] = Entry("checkForMandatoryAttributes", c, Tag(list[i]), <<>>)
           /\ log[n + 3] = Ev("_doRender", c)
           /\ legend[c] => log[n + 4] = Ev("legend.render", c)
           /\ log[n + l + 4] = Ev("pretransition", c)
           /\ log[n + l + 5] = Ev("renderlet", c)
           /\ log[n + l + 6] = Ev("postRender", c)
           /\ last.inner = <<Entry("_doRender()", c, None, <<>>)>>

\* C28 witness: render() completed on a chart with a legend, two mandatory
\* attributes and no transition.
C28_Witness ==
    /\ RenderCompleted /\ transitionDuration[last.c] = 0
    /\ legend[last.c] /\ mandatoryAttributesList[last.c] = <<"dimension", "group">>
    /\ Count("legend.render") = 1 /\ Count("postRender") = 1
    /\ Count("checkForMandatoryAttributes") = 2
(***************************************************************************)
(* C29                                                                      *)
(***************************************************************************)
\* what width() / height() of chart c may return now
CurrentWidths(c) ==
    IF IsNumber(width[c]) THEN {width[c]}
    ELSE {CalcValue(widthCalc[c], minWidth[c], bw) : bw \in BoxSizes}
CurrentHeights(c) ==
    IF IsNumber(height[c]) THEN {height[c]}
    ELSE {CalcValue(heightCalc[c], minHeight[c], bh) : bh \in BoxSizes}

\* C29: after every redraw() on a chart with a svg, the width and height
\* attributes of the svg or, with viewBox resizing, its viewBox are those of
\* the chart's current width() and height(), also when these changed since
\* the svg was last sized.
C29_RedrawResizes ==
    (last.op = "redraw" /\ svg[last.c]) =>
        LET c == last.c
        IN IF useViewBoxResizing[c]
           THEN \E w \in CurrentWidths(c), h \in CurrentHeights(c) :
                    svgAttr[c].viewBox = <<0, 0, w, h>>
           ELSE /\ svgAttr[c].width \in CurrentWidths(c)
                /\ svgAttr[c].height \in CurrentHeights(c)
(***************************************************************************)
(* C30                                                                      *)
(***************************************************************************)
\* the filter(value) call that last ran had a defined argument and returned
FilterReturned ==
    /\ last.op = "filter" /\ last.v # None
    /\ Count("ListenerError") = 0

\* C30: after a filter(value) call with a defined argument has returned on
\* an anchored chart, the control elements are shown iff hasFilter() is true
\* (with the default has-handler: iff the stored list is not empty) and are
\* hidden otherwise, by the visibility style when controlsUseVisibility is
\* set and by the display style when it is not.
C30_ControlsFollowFilters ==
    (FilterReturned /\ root[last.c] # "undefined") =>
        LET c == last.c
            has == _hasFilterHandler(c, filters[c], None)
            style == IF controlsUseVisibility[c] THEN controlStyle[c].visibility
                     ELSE controlStyle[c].display
        IN /\ hasFilterHandler[c] = "default" => (has <=> filters[c] # <<>>)
           /\ has => /\ style = "null" /\ controls[c] = "on"
                     /\ log[Len(log)] = Entry("turnOnControls", c, None, filters[c])
           /\ ~has => /\ style = (IF controlsUseVisibility[c] THEN "hidden" ELSE "none")
                      /\ controls[c] = "off"
                      /\ log[Len(log)] = Entry("turnOffControls", c, None, filters[c])

\* C30 witness: on a chart that hides its controls by visibility, a filter
\* call removed the last filter and the controls, shown before, were hidden.
C30_Witness ==
    /\ FilterReturned /\ root[last.c] # "undefined"
    /\ controlsUseVisibility[last.c] /\ hasFilterHandler[last.c] = "default"
    /\ last.pre # <<>> /\ filters[last.c] = <<>>
    /\ controlStyle[last.c] = [display |-> "null", visibility |-> "hidden"]

(***************************************************************************)
(* C31                                                                      *)
(***************************************************************************)
\* the list a filter(v) call on the list fs has to record
Toggled(fs, v) ==
    IF v = Null THEN <<>>
    ELSE LET hits == MatchingIn(fs, v)
         IN IF hits = {} THEN Append(fs, v)
            ELSE RemoveAt(fs, CHOOSE i \in hits : \A j \in hits : i <= j)

\* what the applyFilters step of a filter(v) call does
ApplyStep ==
    last'.op = "filter" =>
        LET c == last'.c
            cand == Events("applyFilters")'[1].fs
            bound == dimension[c] = "crossfilter"
        IN /\ Count("applyFilters")' = 1
           /\ cand = Toggled(filters[c], last'.v)
           /\ bound <=> Count("filterHandler")' = 1
           /\ ~bound =>
                /\ Count("filterHandler")' = 0
                /\ DsOps' = <<>> /\ dsLast' = dsLast
                /\ filters'[c] = cand

\* C31: applyFilters invokes the filter-apply handler only when the chart has
\* a dimension that has a filter method; otherwise it makes no data-source
\* call and returns the candidate list as it is, so that filter(v) records
\* the toggled list also on a chart without a dimension.
C31_ApplyOnlyWithDimension == [][ApplyStep]_vars

\* C31 witness: filter(v) removed v from the list of a chart without a
\* dimension and made no data-source call.
C31_Witness ==
    /\ last.op = "filter" /\ last.v = Num(1)
    /\ dimension[last.c] = "undefined"
    /\ last.pre = <<Num(2), Num(1)>> /\ filters[last.c] = <<Num(2)>>
    /\ Count("filterHandler") = 0 /\ DsOps = <<>>

(***************************************************************************)
(* C32                                                                      *)
(***************************************************************************)
\* C32: with the default handlers, whatever filter(v), filter([[...]]),
\* filter(null) and replaceFilter(v) calls were made from the empty list, no
\* two elements of the filter list match each other under the
\* equal-or-within test.
C32_NoTwoMatching ==
    \A c \in Charts :
        \A i, j \in 1..Len(filters[c]) :
            i # j => ~Matches(filters[c][i], filters[c][j])

\* C32 witness: a value that matches an element recorded as another type was
\* given to filter(v), which removed that element instead of adding the value.
C32_Witness ==
    /\ last.op = "filter" /\ last.v = Str(1)
    /\ last.pre = <<NaN, Num(1), Ranged(1, 2)>>
    /\ filters[last.c] = <<NaN, Ranged(1, 2)>>

(***************************************************************************)
(* C33                                                                      *)
(***************************************************************************)
\* the operation the policy table assigns to the list fs
PolicyCall(fs) ==
    CASE Len(fs) = 0 -> DsCall("filter", Null, <<>>)
      [] Len(fs) = 1 /\ fs[1].kind \in {"num", "nan", "str"} ->
            DsCall("filterExact", fs[1], <<>>)
      [] Len(fs) = 1 /\ fs[1].kind = "ranged" -> DsCall("filterRange", fs[1], <<>>)
      [] OTHER -> DsCall("filterFunction", None, fs)

\* C33: with the default handlers, every filter(value) and
\* replaceFilter(value) call on a chart with a dimension leaves, as the last
\* operation applied to the data source, the one the policy table assigns to
\* the recorded list; and as long as that dimension stays bound, the last
\* operation it received and the recorded list agree.
C33_DataSourceAgrees ==
    /\ (last.op \in {"filter", "replaceFilter"} /\ dimension[last.c] = "crossfilter")
            => dsLast[last.c] # NoDsCall
    /\ \A c \in Charts :
         (dimension[c] = "crossfilter" /\ dsLast[c] # NoDsCall)
            => dsLast[c] = PolicyCall(filters[c])

\* C33 witness: after a predicate had been applied for two elements,
\* filter(v) removed one of them and the data source got the exact match of
\* the element that was left.
C33_Witness ==
    /\ last.op = "filter" /\ dimension[last.c] = "crossfilter"
    /\ last.pre = <<Num(1), Num(2)>> /\ last.v = Num(1)
    /\ filters[last.c] = <<Num(2)>>
    /\ dsLast[last.c] = DsCall("filterExact", Num(2), <<>>)

(***************************************************************************)
(* C34                                                                      *)
(***************************************************************************)
\* the render() call that last ran failed the mandatory-attribute check
RenderFailed == last.op = "render" /\ Count("InvalidStateException") = 1

\* the place in the list of the first name whose attribute is missing
FirstMissing(c) ==
    CHOOSE i \in 1..Len(mandatoryAttributesList[c]) :
        /\ mandatoryAttributesList[c][i] \in Missing(c)
        /\ \A j \in 1..(i - 1) : mandatoryAttributesList[c][j] \notin Missing(c)

\* C34: when render() raises InvalidState for a missing mandatory attribute,
\* the cached width and height have been cleared and preRender has been
\* fired before; the names are checked in list order and the check stops at
\* the first name that fails, which is the one the exception names.
C34_FailedRenderEffects ==
    RenderFailed =>
        LET c == last.c
            list == mandatoryAttributesList[c]
            first == FirstMissing(c)
        IN /\ Missing(c) # {}
           /\ width[c] = Unset /\ height[c] = Unset
           /\ log[1] = Ev("_width = undefined", c)
           /\ log[2] = Ev("preRender", c)
           /\ Count("checkForMandatoryAttributes") = first
           /\ \A i \in 1..first :
                 log[2 + i] = Entry("checkForMandatoryAttributes", c, Tag(list[i]), <<>>)
           /\ Len(log) = first + 3
           /\ log[first + 3] = Entry("InvalidStateException", c, Tag(list[first]), <<>>)

\* C34 witness: on a chart with neither dimension nor group, render() failed
\* for the dimension, the first name of the list, and checked no second name.
C34_Witness ==
    /\ RenderFailed
    /\ mandatoryAttributesList[last.c] = <<"dimension", "group">>
    /\ Missing(last.c) = {"dimension", "group"}
    /\ svg[last.c] /\ width[last.c] = Unset
    /\ Count("preRender") = 1 /\ Count("checkForMandatoryAttributes") = 1
    /\ Events("InvalidStateException")[1].v = Tag("dimension")

(***************************************************************************)
(* C35                                                                      *)
(***************************************************************************)
\* the filtered events and the control updates of replaceFilter(v), and of
\* filter(v) called right after filter(null) on the same chart
FilteredEvents ==
    /\ last'.op = "replaceFilter" =>
          /\ Count("filtered")' = 1
          /\ Events("filtered")'[1].v = last'.v
          /\ Count("turnOnControls")' + Count("turnOffControls")' = 1
          /\ Pos("filtered")' < Len(log')
          /\ Count("_filters")' = 1
    /\ (last.op = "filter" /\ last.v = Null /\ last'.op = "filter" /\ last'.c = last.c) =>
          /\ Count("filtered") = 1 /\ Events("filtered")[1].v = Null
          /\ Count("filtered")' = 1 /\ Events("filtered")'[1].v = last'.v
          /\ Count("turnOnControls") + Count("turnOffControls") = 1
          /\ Count("turnOnControls")' + Count("turnOffControls")' = 1

\* C35: replaceFilter(v) fires filtered exactly once, with v, and updates the
\* controls once, after the event: its reset step fires no event and touches
\* no control; filter(null) followed by filter(v) fires filtered twice, with
\* null and then with v, and updates the controls twice.
C35_ReplaceFiresOnce == [][FilteredEvents]_vars

\* C35 witness: replaceFilter(v) replaced a list of two elements by v, fired
\* one filtered event and turned the controls on once.
C35_Witness ==
    /\ last.op = "replaceFilter" /\ last.v = Num(2)
    /\ last.pre = <<Num(1), Ranged(1, 2)>> /\ filters[last.c] = <<Num(2)>>
    /\ Count("filtered") = 1 /\ Count("turnOnControls") = 1

(***************************************************************************)
(* C36                                                                      *)
(***************************************************************************)
\* the charts the pass of the log called render() or redraw() on
Visited == {log[i].c : i \in {k \in 1..Len(log) : log[k].ev \in {"render", "redraw"}}}

\* C36: the pass a completion callback makes goes over the group that is the
\* chart's chartGroup() when the callback runs; when chartGroup(g2) was
\* called after redrawGroup() / renderGroup(), the pass goes over g2 and the
\* members of the group the chart had at the call are not visited.
C36_GroupAtCompletion ==
    (last.op = "callback" /\ last.v = Bool(FALSE)) =>
        LET now == chartGroup[last.c]
            asked == last.inner[2].kind
        IN /\ log[1] = Entry(last.inner[1].kind, 0, Tag(now), <<>>)
           /\ Passes = 1
           /\ Visited \subseteq Members(chartMap, now)
           /\ last.inner[1].kind = "redrawAll" => Visited = Members(chartMap, now)
           /\ asked # now => Visited \cap Members(chartMap, asked) \subseteq Members(chartMap, now)

\* C36 witness: redrawGroup() was called in the default group, the chart was
\* moved to another group, and the callback redrew the chart in its new group
\* and not the chart that is still in the default group.
C36_Witness ==
    /\ last.op = "callback" /\ last.v = Bool(FALSE)
    /\ last.inner = <<Tag("redrawAll"), Tag(DEFAULT_CHART_GROUP)>>
    /\ chartGroup[last.c] = "g1"
    /\ Members(chartMap, DEFAULT_CHART_GROUP) = {Partner}
    /\ Visited = {last.c}

(***************************************************************************)
(* C37                                                                      *)
(***************************************************************************)
\* a group-wide call on a chart with a commit handler calls the handler
\* once, whatever is pending
HandlerCalled ==
    (last'.op \in {"redrawGroup", "renderGroup"} /\ commitHandler[last'.c]) =>
        /\ CountIn(log', "commitHandler") = 1
        /\ Len(pendingCommits') = Len(pendingCommits) + 1

\* an invocation of a completion callback makes one pass, its own, when it
\* is given no error, and none when it is given one
OnePassEach ==
    (last'.op = "callback") =>
        IF last'.v = Bool(FALSE)
        THEN /\ CountIn(log', "renderAll") + CountIn(log', "redrawAll") = 1
             /\ log'[1] = Entry(last'.inner[1].kind, 0, Tag(chartGroup[last'.c]), <<>>)
        ELSE CountIn(log', "renderAll") + CountIn(log', "redrawAll") = 0

\* C37: every redrawGroup() / renderGroup() of a chart with a commit handler
\* calls the handler, also while earlier commits are pending, and every
\* invocation of a completion callback without an error makes one pass when
\* it is invoked, a repeated invocation included; an invocation with an
\* error makes none.
C37_NeitherGuardedNorCoalesced == [][HandlerCalled /\ OnePassEach]_vars

\* C37 witness: the handler was called a second time while the first commit
\* was pending, and it invoked one callback twice without error: each
\* invocation made a pass.
C37_Witness ==
    /\ last.op = "callback" /\ last.v = Bool(FALSE) /\ last.again
    /\ Len(pendingCommits) = 2
    /\ Passes = 1

(***************************************************************************)
(* C38                                                                      *)
(***************************************************************************)
\* minWidth(m) / minHeight(m) assign the minimum and nothing else
MinimumOnly ==
    /\ last'.op = "minWidth(m)" =>
          /\ minWidth' = [minWidth EXCEPT ![last'.c] = last'.v.a]
          /\ UNCHANGED <<width, height, widthCalc, heightCalc, minHeight, svgAttr>>
    /\ last'.op = "minHeight(m)" =>
          /\ minHeight' = [minHeight EXCEPT ![last'.c] = last'.v.a]
          /\ UNCHANGED <<width, height, widthCalc, heightCalc, minWidth, svgAttr>>

\* a cached number is what the getter returns, whatever the minimum is
CachedIsReturned ==
    /\ (last'.op = "width()" /\ IsNumber(width[last'.c])) =>
          last'.v = Num(width[last'.c]) /\ width' = width /\ log' = <<>>
    /\ (last'.op = "height()" /\ IsNumber(height[last'.c])) =>
          last'.v = Num(height[last'.c]) /\ height' = height /\ log' = <<>>

\* a cached number is dropped by the setter of the size and by render() only
CachedUntilSetOrRender ==
    \A c \in Charts :
        /\ (IsNumber(width[c]) /\ width'[c] # width[c]) =>
              last'.c = c /\ last'.op \in {"width(x)", "render"}
        /\ (IsNumber(height[c]) /\ height'[c] # height[c]) =>
              last'.c = c /\ last'.op \in {"height(x)", "render"}

\* C38: minWidth(m) and minHeight(m) change the minimum and leave the cached
\* width and height alone; a cached width (height) is returned by width()
\* (height()) whatever the minimum has become, until width(x) (height(x)) or
\* render() clears it.
C38_MinimumKeepsCache == [][MinimumOnly /\ CachedIsReturned /\ CachedUntilSetOrRender]_vars

\* C38 witness: with the default calculator, width() returned the cached
\* width although the minimum had been raised above it.
C38_Witness ==
    /\ last.op = "width()" /\ log = <<>>
    /\ widthCalc[last.c] = DefaultCalc
    /\ last.v = Num(width[last.c])
    /\ IsNumber(width[last.c]) /\ width[last.c] < minWidth[last.c]
(***************************************************************************)
(* C39                                                                      *)
(***************************************************************************)
\* filter(v) for a value that is toggled, on a chart whose filter handler
\* throws
FailedToggle ==
    (/\ last'.op = "filter" /\ last'.v.kind # "null"
     /\ dimension[last'.c] = "throwing") =>
        LET c == last'.c
        IN /\ log'[Len(log')] = Entry("HandlerError", c, None, <<>>)
           /\ CountIn(log', "filtered") = 0
           /\ CountIn(log', "turnOnControls") + CountIn(log', "turnOffControls") = 0
           /\ controls' = controls /\ controlStyle' = controlStyle
           /\ filters'[c] = Toggle(c, filters[c], last'.v)
           /\ filters'[c] # filters[c]

\* C39: with the default add and remove handlers, a filter(v) whose filter
\* handler throws ends with the exception: no filtered event is fired and
\* the controls are left alone, and filters() shows the list with v toggled,
\* not the list before the call.
C39_ThrowKeepsToggle == [][FailedToggle]_vars

\* C39 witness: filter(1) on an empty list threw in the filter handler and
\* filters() is [1].
C39_Witness ==
    /\ last.op = "filter" /\ last.v = Num(1) /\ last.pre = <<>>
    /\ dimension[last.c] = "throwing"
    /\ log[Len(log)] = Entry("HandlerError", last.c, None, <<>>)
    /\ filters[last.c] = <<Num(1)>>

(***************************************************************************)
(* C40                                                                      *)
(***************************************************************************)
\* redraw() on a chart that lacks its dimension or its group
RedrawUnchecked ==
    (/\ last'.op = "redraw"
     /\ dimension[last'.c] = "undefined" \/ ~group[last'.c]) =>
        LET c == last'.c
            n == Len(log')
        IN /\ CountIn(log', "InvalidStateException") = 0
           /\ CountIn(log', "checkForMandatoryAttributes") = 0
           /\ CountIn(log', ClearSize(c).ev) = 0
           /\ \E i \in 1..n, j \in 1..n, k \in 1..n :
                 /\ i < j /\ j < k
                 /\ log'[i] = Ev("preRedraw", c)
                 /\ log'[j] = Ev("_doRedraw", c)
                 /\ log'[k] = Ev("pretransition", c)
           /\ IF transitionDuration[c] > 0 /\ svg[c]
              THEN \* renderlet and postRedraw are left to the end of the transition
                   pendingTransitions' =
                       Append(pendingTransitions, [c |-> c, event |-> "postRedraw"])
              ELSE /\ SubSeq(log', n - 1, n) = <<Ev("renderlet", c), Ev("postRedraw", c)>>
                   /\ pendingTransitions' = pendingTransitions
           /\ IsNumber(width[c]) => width'[c] = width[c]
           /\ IsNumber(height[c]) => height'[c] = height[c]

\* the end of a transition that a redraw() started fires renderlet and
\* postRedraw
RedrawEndFires ==
    (last'.op = "transitionEnd" /\ Head(pendingTransitions).event = "postRedraw") =>
        log' = <<Ev("renderlet", last'.c), Ev("postRedraw", last'.c)>>

\* the width() read that follows a redraw() returns the width that is cached
ReadAfterRedraw ==
    (/\ last.op = "redraw" /\ last'.op = "width()" /\ last'.c = last.c
     /\ IsNumber(width[last.c])) =>
        last'.v = Num(width[last.c]) /\ width' = width

\* C40: redraw() on a chart whose dimension or group is unset raises no
\* InvalidState and checks no mandatory attribute; it fires preRedraw, runs
\* the redraw hook and fires pretransition, and renderlet and postRedraw fire
\* in the call or, when it starts a transition, at the end of that
\* transition; it does not clear the cached sizes: a width cached before the
\* call is cached after it and is what width() returns.
C40_RedrawUnchecked == [][RedrawUnchecked /\ RedrawEndFires /\ ReadAfterRedraw]_vars

\* C40 witness: a chart without dimension and group, with a svg and a cached
\* width of 300, was redrawn: the call fired all four events, measured
\* nothing and left the width cached.
C40_Witness ==
    /\ last.op = "redraw"
    /\ dimension[last.c] = "undefined" /\ ~group[last.c]
    /\ svg[last.c] /\ width[last.c] = 300
    /\ CountIn(log, "_widthCalc") = 0
    /\ CountIn(log, "preRedraw") = 1 /\ CountIn(log, "pretransition") = 1
    /\ CountIn(log, "renderlet") = 1 /\ CountIn(log, "postRedraw") = 1

====
